---- MODULE Spec2Model ----
(***************************************************************************)
(* A model of tawnycalc (src/tawnycalc/core.py): the data containers       *)
(* (site_fractions, thermodynamic_properties, rbi), the script-file reader *)
(* and writer of Context (reload, check_config, save_script), and the      *)
(* construction and execution steps of a Context.                          *)
(*                                                                         *)
(* Python text is modelled as a sequence of cells: a cell is a token (a    *)
(* maximal run of non-blank characters, possibly empty) followed by `pad`  *)
(* blanks.  str.split() keeps the non-empty tokens; " ".join writes one    *)
(* blank between tokens; str.ljust adds blanks up to a width.  Python None *)
(* is a value of its own, distinct from the four-letter string "None".     *)
(***************************************************************************)
EXTENDS Integers, Sequences, FiniteSets, TLC

VARIABLES
    \* --- Context.reload / save_script (SpecScript) ---
    file,       \* the lines of tc-<scriptfile>.txt in scripts_dir
    script,     \* Context.script, an ordered key table
    status,     \* "new", "loaded", or "raised"
    err,        \* the error reload raised ("" when none)
    written,    \* the lines save_script wrote
    reread,     \* the script read back from the written lines
    pc,         \* position of the reload / save_script scenario
    \* --- rbi / thermodynamic_properties objects (SpecTable) ---
    tabs,       \* table objects by name: header list ref, rows (key, dict ref)
    listHeap,   \* Python list objects by reference
    dictHeap,   \* Python OrderedDict row objects by reference
    last,       \* the last table operation and its outcome
    \* --- site_fractions (SpecSite) ---
    sf,         \* the site_fractions object: _data_title and the groups
    sfLast,     \* the last add_data call and its outcome
    \* --- Context construction and execute (SpecCtx) ---
    world,      \* the environment: argument, environment variable, PATH, config
    ctx,        \* the Context under construction / constructed
    scratch,    \* the scratch directory: exists, files written in it
    run,        \* the current execute call: position, launches, outcome
    \* --- two Contexts and their scratch directories (SpecPair) ---
    ctxs,       \* the two Context objects: identifier, temp_dir, configuration
    tmp,        \* the directories by path: exists, files with their writer
    \* --- the program run by execute and its pipes (SpecProc) ---
    prog,       \* the external program: position, what it still does
    pipes,      \* stdin and stdout of the program: lines in flight, closed
    wrap        \* execute from Popen to results: position, lines read

vars == <<file, script, status, err, written, reread, pc, tabs, listHeap, dictHeap, last,
          sf, sfLast, world, ctx, scratch, run, ctxs, tmp, prog, pipes, wrap>>

scriptVars == <<file, script, status, err, written, reread, pc>>
tableVars == <<tabs, listHeap, dictHeap, last>>
siteVars == <<sf, sfLast>>
ctxVars == <<world, ctx, scratch, run>>
pairVars == <<ctxs, tmp>>
procVars == <<prog, pipes, wrap>>

(***************************************************************************)
(* Bounds of the model.                                                    *)
(***************************************************************************)
MaxLines == 3
MaxCalls == 4
MaxExec == 2
MaxEdits == 2
MaxPrefsLines == 4
MaxLogLines == 3

(***************************************************************************)
(* Generic helpers.                                                        *)
(***************************************************************************)
Max(a, b) == IF a > b THEN a ELSE b

Min(a, b) == IF a < b THEN a ELSE b

RECURSIVE SeqsUpTo(_, _)
SeqsUpTo(S, n) ==
    IF n = 0 THEN {<<>>}
    ELSE LET shorter == SeqsUpTo(S, n - 1)
         IN shorter \cup {Append(s, x) : s \in {t \in shorter : Len(t) = n - 1}, x \in S}

Range(s) == {s[i] : i \in 1..Len(s)}

(***************************************************************************)
(* Python values.                                                          *)
(***************************************************************************)
PyNone == [t |-> "None"]

PyStr(text) == [t |-> "str", s |-> text]

PyInt(n) == [t |-> "int", n |-> n]

PyList(items) == [t |-> "list", items |-> items]

(***************************************************************************)
(* Text.                                                                   *)
(***************************************************************************)
Cell(tok, pad) == [tok |-> tok, pad |-> pad]

\* len(tok) for the tokens the model uses
StrLen(tok) ==
    CASE tok = "" -> 0
      [] tok \in {"*", "%", "g", "q", "1", "0", "3", "2", "5"} -> 1
      [] tok = "bi" -> 2
      [] tok \in {"rbi", "yes", "ask", "0.1", "0.2", "0.5", "55"} -> 3
      [] tok \in {"with", "None", "mb50", "x(g)", "z(g)", "SiO2", "test"} -> 4
      [] tok = "Al2O3" -> 5
      [] tok = "axfile" -> 6
      [] tok = "dataset" -> 7
      [] tok \in {"autoexit", "xyzguess", "calcmode"} -> 8
      [] tok = "scriptfile" -> 10
      [] OTHER -> 6

RECURSIVE TextLen(_)
TextLen(text) ==
    IF text = <<>> THEN 0
    ELSE StrLen(Head(text).tok) + Head(text).pad + TextLen(Tail(text))

\* the text of one token
Tok(tok) == <<Cell(tok, 0)>>

\* text followed by n blanks
AddPad(text, n) ==
    IF n = 0 THEN text
    ELSE IF text = <<>> THEN <<Cell("", n)>>
    ELSE [text EXCEPT ![Len(text)].pad = @ + n]

\* str.ljust(width)
Ljust(text, width) == AddPad(text, Max(0, width - TextLen(text)))

\* a + " " + b
Spaced(a, b) == AddPad(a, 1) \o b

\* str.split(): the non-empty tokens
Split(text) ==
    LET full == SelectSeq(text, LAMBDA c : c.tok # "")
    IN [i \in 1..Len(full) |-> full[i].tok]

\* " ".join(toks)
Join(toks) == [i \in 1..Len(toks) |-> Cell(toks[i], IF i < Len(toks) THEN 1 ELSE 0)]

\* (mutant) the comment is kept
StripCommentKeep(text) == text

\* line.split("%", 1)[0]: everything before the first '%'
RECURSIVE StripComment(_)
StripComment(text) ==
    IF text = <<>> THEN <<>>
    ELSE IF Head(text).tok = "%" THEN <<>>
    ELSE <<Head(text)>> \o StripComment(Tail(text))

\* str.strip() of a header item
Strip(tok) ==
    CASE tok = " SiO2 " -> "SiO2"
      [] tok = "Al2O3 " -> "Al2O3"
      [] OTHER -> tok

\* "{}".format(v)
Format(v) ==
    CASE v.t = "None" -> Tok("None")
      [] v.t = "str" -> v.s
      [] v.t = "int" -> Tok(IF v.n = 1 THEN "1" ELSE "2")
      [] OTHER -> Tok("?")

(***************************************************************************)
(* OrderedDict: a sequence of [key, val] in insertion order.               *)
(***************************************************************************)
Has(d, k) == \E i \in 1..Len(d) : d[i].key = k

Index(d, k) == CHOOSE i \in 1..Len(d) : d[i].key = k

Get(d, k) == d[Index(d, k)].val

\* d[k] = v: an existing key keeps its position
Put(d, k, v) ==
    IF Has(d, k) THEN [d EXCEPT ![Index(d, k)].val = v]
    ELSE Append(d, [key |-> k, val |-> v])

Keys(d) == [i \in 1..Len(d) |-> d[i].key]

Values(d) == [i \in 1..Len(d) |-> d[i].val]

\* defaultdict(lambda: 0)[k]
Count(d, k) == IF Has(d, k) THEN Get(d, k) ELSE 0

\* zip(keys, values) written into d, in order
RECURSIVE PutZip(_, _, _)
PutZip(d, keys, values) ==
    IF keys = <<>> \/ values = <<>> THEN d
    ELSE PutZip(Put(d, Head(keys), Head(values)), Tail(keys), Tail(values))

(***************************************************************************)
(* Exceptions.                                                             *)
(***************************************************************************)
NoError == [type |-> "none"]

IndexError == [type |-> "IndexError"]

TypeError == [type |-> "TypeError"]

ValueError == [type |-> "ValueError"]

RuntimeError(msg) == [type |-> "RuntimeError", msg |-> msg]

\* the count-mismatch message of add_data / add_phase: "Expected ... count
\* ({expected}) is different from that encountered ({actual}) for phase '{key}'"
CountError(msg, expected, actual, key) ==
    [type |-> "RuntimeError", msg |-> msg, expected |-> expected,
     actual |-> actual, key |-> key]

(***************************************************************************)
(* _tabled_data, thermodynamic_properties, rbi: a table is its header and  *)
(* its rows, an OrderedDict from row key to an OrderedDict column -> value.*)
(***************************************************************************)
\* _tabled_data.__init__
TabledInit(header) ==
    [header |-> [i \in 1..Len(header) |-> Strip(header[i])], rows |-> <<>>]

\* thermodynamic_properties.add_data: [tbl, err]
ThermoAddData(tbl, line) ==
    IF Len(line) # Len(tbl.header) + 1
    THEN [tbl |-> tbl,
          err |-> IF Len(line) = 0 THEN IndexError   \* line[0] in the message
                  ELSE CountError("thermo", Len(tbl.header), Len(line) - 1, line[1])]
    ELSE [tbl |-> [tbl EXCEPT !.rows = Put(@, line[1], PutZip(<<>>, tbl.header, Tail(line)))],
          err |-> NoError]

\* rbi.__init__ (oxides given as a list)
RbiInit(oxides) == TabledInit(oxides)

\* rbi.add_phase: [tbl, err]
RbiAddPhase(tbl, phase, mode, oxides) ==
    LET name == Strip(phase)
        opened == Put(tbl.rows, name, <<[key |-> "mode", val |-> mode]>>)
    IN IF Len(tbl.header) # Len(oxides)
       THEN [tbl |-> [tbl EXCEPT !.rows = opened],
             err |-> CountError("rbi", Len(tbl.header), Len(oxides), name)]
       ELSE [tbl |-> [tbl EXCEPT !.rows =
                         Put(opened, name, PutZip(Get(opened, name), tbl.header, oxides))],
             err |-> NoError]

\* rbi.add_data: [tbl, err]
RbiAddData(tbl, line) ==
    IF Len(line) < 2 THEN [tbl |-> tbl, err |-> IndexError]
    ELSE RbiAddPhase(tbl, line[1], line[2], SubSeq(line, 3, Len(line)))

\* rbi._generate_table_rows, then row.insert(0, "rbi") of rbi.__str__
RbiTableRows(tbl) ==
    <<(<<"rbi", "", "">> \o tbl.header)>> \o
    [i \in 1..Len(tbl.rows) |-> <<"rbi", tbl.rows[i].key>> \o Values(tbl.rows[i].val)]

\* tabulate(rows, tablefmt="plain"): one line per row, every column padded to
\* its widest cell, two blanks between columns; a missing cell is empty
Tabulate(rows) ==
    LET ncols == IF rows = <<>> THEN 0
                 ELSE CHOOSE n \in {Len(rows[i]) : i \in 1..Len(rows)} :
                          \A i \in 1..Len(rows) : Len(rows[i]) <= n
        cell(i, j) == IF j <= Len(rows[i]) THEN rows[i][j] ELSE ""
        width(j) == CHOOSE w \in {StrLen(cell(i, j)) : i \in 1..Len(rows)} :
                        \A i \in 1..Len(rows) : StrLen(cell(i, j)) <= w
    IN [i \in 1..Len(rows) |->
           [j \in 1..ncols |->
               Cell(cell(i, j),
                    width(j) - StrLen(cell(i, j)) + (IF j < ncols THEN 2 ELSE 0))]]

\* rbi.__str__, split at its line breaks
RbiStr(tbl) == Tabulate(RbiTableRows(tbl))

(***************************************************************************)
(* Context.check_config                                                    *)
(***************************************************************************)
\* int(x): [err, n]
IntOf(v) ==
    CASE v.t = "int" -> [err |-> NoError, n |-> v.n]
      [] v.t = "None" -> [err |-> TypeError, n |-> 0]
      [] v.t = "str" /\ v.s = Tok("1") -> [err |-> NoError, n |-> 1]
      [] v.t = "str" /\ v.s = Tok("2") -> [err |-> NoError, n |-> 2]
      [] OTHER -> [err |-> ValueError, n |-> 0]

\* (mutant) an axfile of None passes
CheckConfigAnyAxfile(prefs, scr) ==
    IF ~Has(prefs, "dataset") THEN RuntimeError("dataset")
    ELSE IF ~Has(prefs, "calcmode") THEN RuntimeError("calcmode")
    ELSE IF IntOf(Get(prefs, "calcmode")).err # NoError THEN IntOf(Get(prefs, "calcmode")).err
    ELSE IF IntOf(Get(prefs, "calcmode")).n # 1 THEN RuntimeError("calcmode 1")
    ELSE IF ~Has(scr, "axfile") THEN RuntimeError("axfile")
    ELSE NoError

\* the error check_config raises, NoError when it returns
CheckConfig(prefs, scr) ==
    IF ~Has(prefs, "dataset") THEN RuntimeError("dataset")
    ELSE IF ~Has(prefs, "calcmode") THEN RuntimeError("calcmode")
    ELSE IF IntOf(Get(prefs, "calcmode")).err # NoError THEN IntOf(Get(prefs, "calcmode")).err
    ELSE IF IntOf(Get(prefs, "calcmode")).n # 1 THEN RuntimeError("calcmode 1")
    ELSE IF ~Has(scr, "axfile") THEN RuntimeError("axfile")
    ELSE IF Get(scr, "axfile") = PyNone THEN RuntimeError("valid axfile")
    ELSE NoError

(***************************************************************************)
(* Context.reload: the script file.  The state of the read loop is the     *)
(* script built so far, the occurrence counts, whether '*' was met and the *)
(* exception raised.                                                       *)
(***************************************************************************)
PyXyz(d) == [t |-> "xyz", d |-> d]

PyRbi(tbl) == [t |-> "rbi", tbl |-> tbl]

\* the defaults reload creates before it reads anything
DefaultScript ==
    <<[key |-> "axfile", val |-> PyNone],
      [key |-> "autoexit", val |-> PyStr(Tok("yes"))]>>

DefaultPrefs(id) ==
    <<[key |-> "calcmode", val |-> PyInt(1)],
      [key |-> "scriptfile", val |-> PyStr(Tok(id))],
      [key |-> "dataset", val |-> PyNone]>>

\* the xyzguess branch: [script, err]
XyzDirective(scr, value) ==
    LET made == IF Has(scr, "xyzguess") THEN scr ELSE Put(scr, "xyzguess", PyXyz(<<>>))
    IN IF Len(value) = 0 THEN [script |-> made, err |-> IndexError]   \* value[0]
       ELSE [script |-> Put(made, "xyzguess",
                            PyXyz(Put(Get(made, "xyzguess").d, value[1], Tail(value)))),
             err |-> NoError]

\* (mutant) the first rbi line is also added as a data row
RbiDirectiveHeaderAsRow(scr, value) ==
    LET tbl == IF Has(scr, "rbi") THEN Get(scr, "rbi").tbl ELSE RbiInit(value)
        res == RbiAddData(tbl, value)
    IN [script |-> Put(scr, "rbi", PyRbi(res.tbl)), err |-> res.err]

\* the rbi branch: [script, err]
RbiDirective(scr, value) ==
    IF ~Has(scr, "rbi") THEN [script |-> Put(scr, "rbi", PyRbi(RbiInit(value))), err |-> NoError]
    ELSE LET res == RbiAddData(Get(scr, "rbi").tbl, value)
         IN [script |-> Put(scr, "rbi", PyRbi(res.tbl)), err |-> res.err]

\* the value of any other directive: None, or its arguments joined by blanks
DirectiveValue(value) == IF Len(value) = 0 THEN PyNone ELSE PyStr(Join(value))

\* (mutant) every occurrence overwrites the entry: no list is ever made
StoreOccurrenceOverwrite(scr, key, n, value) == Put(scr, key, value)

\* (mutant) a later occurrence removes the entry and inserts it anew
StoreOccurrenceReinsert(scr, key, n, value) ==
    LET rest == SelectSeq(scr, LAMBDA e : e.key # key)
    IN IF n = 1 THEN Put(scr, key, value)
       ELSE IF n = 2 THEN Put(rest, key, PyList(<<Get(scr, key), value>>))
       ELSE Put(rest, key, PyList(Append(Get(scr, key).items, value)))

\* the entry made for the n-th occurrence of a key: a scalar, then a list
StoreOccurrence(scr, key, n, value) ==
    LET first == IF n = 1 THEN Put(scr, key, value) ELSE scr
        rows == IF n = 2 THEN Put(first, key, PyList(<<Get(first, key)>>)) ELSE first
    IN IF n > 1 THEN Put(rows, key, PyList(Append(Get(rows, key).items, value)))
       ELSE rows

\* (mutant) a '*' line is passed over and reading goes on
ScriptLineNoStop(st, line) ==
    LET splitline == Split(StripComment(line))
        key == splitline[1]
        value == Tail(splitline)
    IN IF st.err # NoError THEN st
       ELSE IF Len(splitline) = 0 \/ key = "*" THEN st
       ELSE IF key = "xyzguess"
            THEN [st EXCEPT !.script = XyzDirective(st.script, value).script,
                            !.err = XyzDirective(st.script, value).err]
       ELSE IF key = "rbi"
            THEN [st EXCEPT !.script = RbiDirective(st.script, value).script,
                            !.err = RbiDirective(st.script, value).err]
       ELSE IF DirectiveValue(value) = PyStr(Tok("ask"))
            THEN [st EXCEPT !.err = RuntimeError("ask")]
       ELSE [st EXCEPT !.keycount = Put(@, key, Count(@, key) + 1),
                       !.script = StoreOccurrence(@, key, Count(st.keycount, key) + 1,
                                                  DirectiveValue(value))]

\* (mutant) only the first occurrence of a key is checked for 'ask'
ScriptLineAskOnce(st, line) ==
    LET splitline == Split(StripComment(line))
        key == splitline[1]
        value == Tail(splitline)
    IN IF st.stop \/ st.err # NoError THEN st
       ELSE IF Len(splitline) = 0 THEN st
       ELSE IF key = "*" THEN [st EXCEPT !.stop = TRUE]
       ELSE IF key = "xyzguess"
            THEN [st EXCEPT !.script = XyzDirective(st.script, value).script,
                            !.err = XyzDirective(st.script, value).err]
       ELSE IF key = "rbi"
            THEN [st EXCEPT !.script = RbiDirective(st.script, value).script,
                            !.err = RbiDirective(st.script, value).err]
       ELSE IF DirectiveValue(value) = PyStr(Tok("ask")) /\ Count(st.keycount, key) = 0
            THEN [st EXCEPT !.err = RuntimeError("ask")]
       ELSE [st EXCEPT !.keycount = Put(@, key, Count(@, key) + 1),
                       !.script = StoreOccurrence(@, key, Count(st.keycount, key) + 1,
                                                  DirectiveValue(value))]

\* one pass of the read loop over a line of the script file
ScriptLine(st, line) ==
    LET splitline == Split(StripComment(line))
        key == splitline[1]
        value == Tail(splitline)
    IN IF st.stop \/ st.err # NoError THEN st
       ELSE IF Len(splitline) = 0 THEN st
       ELSE IF key = "*" THEN [st EXCEPT !.stop = TRUE]
       ELSE IF key = "xyzguess"
            THEN [st EXCEPT !.script = XyzDirective(st.script, value).script,
                            !.err = XyzDirective(st.script, value).err]
       ELSE IF key = "rbi"
            THEN [st EXCEPT !.script = RbiDirective(st.script, value).script,
                            !.err = RbiDirective(st.script, value).err]
       ELSE IF DirectiveValue(value) = PyStr(Tok("ask"))
            THEN [st EXCEPT !.err = RuntimeError("ask")]
       ELSE [st EXCEPT !.keycount = Put(@, key, Count(@, key) + 1),
                       !.script = StoreOccurrence(@, key, Count(st.keycount, key) + 1,
                                                  DirectiveValue(value))]

RECURSIVE ReadScript(_, _)
ReadScript(st, lines) ==
    IF lines = <<>> THEN st
    ELSE ReadScript(ScriptLine(st, Head(lines)), Tail(lines))

\* the script part of reload over the lines of the script file, then
\* check_config: [script, err]
ReloadScript(prefs, lines) ==
    LET st == ReadScript([script |-> DefaultScript, keycount |-> <<>>,
                          stop |-> FALSE, err |-> NoError], lines)
    IN [script |-> st.script,
        err |-> IF st.err # NoError THEN st.err ELSE CheckConfig(prefs, st.script)]

(***************************************************************************)
(* Context.save_script                                                     *)
(***************************************************************************)
\* _longest_key
RECURSIVE LongestKey(_)
LongestKey(d) ==
    IF d = <<>> THEN 0 ELSE Max(StrLen(Head(d).key), LongestKey(Tail(d)))

\* _get_string(item, just) of a list of tokens
RECURSIVE JoinJust(_, _)
JoinJust(toks, just) ==
    IF toks = <<>> THEN <<>>
    ELSE IF Len(toks) = 1 THEN Ljust(Tok(toks[1]), just)
    ELSE Spaced(Ljust(Tok(Head(toks)), just), JoinJust(Tail(toks), just))

\* the lines save_script writes for one entry
EntryLines(key, value, longest) ==
    CASE value.t = "list" ->
           [i \in 1..Len(value.items) |-> Spaced(Tok(key), Format(value.items[i]))]
      [] value.t = "rbi" -> RbiStr(value.tbl)
      [] value.t = "xyz" ->
           [i \in 1..Len(value.d) |->
               Spaced(Spaced(Tok(key), Tok(value.d[i].key)), JoinJust(value.d[i].val, 10))]
      [] OTHER -> <<Spaced(Ljust(Tok(key), longest + 1), Format(value))>>

RECURSIVE SaveEntries(_, _)
SaveEntries(d, longest) ==
    IF d = <<>> THEN <<>>
    ELSE EntryLines(Head(d).key, Head(d).val, longest) \o SaveEntries(Tail(d), longest)

\* the lines of the file save_script writes
SaveScript(scr) == SaveEntries(scr, LongestKey(scr))

(***************************************************************************)
(* SpecTable: rbi and thermodynamic_properties as Python objects.  A table *)
(* object holds a reference to its header list (rbi.oxides is the same     *)
(* list) and, per row key, a reference to the row's OrderedDict; the two   *)
(* heaps hold the objects, so aliasing between tables would show.          *)
(***************************************************************************)
NoTable == [kind |-> "none", header |-> 0, rows |-> <<>>]

\* the table a table object denotes
TableValue(obj, lists, dicts) ==
    [header |-> lists[obj.header],
     rows |-> [i \in 1..Len(obj.rows) |->
                  [key |-> obj.rows[i].key, val |-> dicts[obj.rows[i].val]]]]

View(t) == TableValue(tabs[t], listHeap, dictHeap)

\* the object made of a table value, its lists and dicts placed after those given
NewObject(kind, tbl, lists, dicts) ==
    [obj |-> [kind |-> kind, header |-> Len(lists) + 1,
              rows |-> [i \in 1..Len(tbl.rows) |->
                           [key |-> tbl.rows[i].key, val |-> Len(dicts) + i]]],
     lists |-> Append(lists, tbl.header),
     dicts |-> dicts \o Values(tbl.rows)]

\* cpy[key] = val.copy() for every row, the copies placed after dicts
CopyRows(rows, dicts) ==
    [rows |-> [i \in 1..Len(rows) |-> [key |-> rows[i].key, val |-> Len(dicts) + i]],
     dicts |-> dicts \o [i \in 1..Len(rows) |-> dicts[rows[i].val]]]

\* (mutant) cpy[key] = val: the rows of the copy are the rows of the source
RbiCopyAliasRows(obj, lists, dicts) ==
    [obj |-> [kind |-> "rbi", header |-> Len(lists) + 1, rows |-> obj.rows],
     lists |-> Append(lists, RbiInit(lists[obj.header]).header),
     dicts |-> dicts]

\* rbi.copy: [obj, lists, dicts]
RbiCopy(obj, lists, dicts) ==
    LET made == RbiInit(lists[obj.header])
        copied == CopyRows(obj.rows, dicts)
    IN [obj |-> [kind |-> "rbi", header |-> Len(lists) + 1, rows |-> copied.rows],
        lists |-> Append(lists, made.header),
        dicts |-> copied.dicts]

\* the headers tables are constructed with
RbiHeaders == {<<"SiO2", "Al2O3">>, <<" SiO2 ">>}

ThermoHeaders == {<<"G", "H">>, <<"G">>}

\* the token lists add_data is called with
RbiDataLines ==
    { <<"q", "0.1", "1", "0">>, <<"bi", "0.2", "3">>, <<"q", "0.5">>, <<"bi">>, <<>> }

ThermoDataLines ==
    { <<"q", "1", "2">>, <<"bi", "3">>, <<"q">>, <<>> }

CellValues == {"5"}

NewOxides == {"K2O"}

TableIdle ==
    /\ tabs = <<>>
    /\ listHeap = <<>>
    /\ dictHeap = <<>>
    /\ last = [op |-> "idle"]

\* an rbi table and a thermodynamic_properties table, just constructed
InitTable ==
    \E oxides \in RbiHeaders, props \in ThermoHeaders :
        /\ listHeap = <<RbiInit(oxides).header, TabledInit(props).header>>
        /\ dictHeap = <<>>
        /\ tabs = [t \in {"src", "cpy", "tp"} |->
                      CASE t = "src" -> [kind |-> "rbi", header |-> 1, rows |-> <<>>]
                        [] t = "tp" -> [kind |-> "thermo", header |-> 2, rows |-> <<>>]
                        [] OTHER -> NoTable]
        /\ last = [op |-> "new", target |-> "src", err |-> NoError, n |-> 0,
                   line |-> <<>>, edited |-> FALSE]

Exists(t) == tabs[t].kind # "none"

\* rbi.add_data on table object t
RbiAdd(t, line) ==
    /\ last.n < MaxCalls
    /\ Exists(t) /\ tabs[t].kind = "rbi"
    /\ LET res == RbiAddData(View(t), line)
           name == Strip(line[1])
       IN /\ IF Len(line) < 2
             THEN UNCHANGED <<tabs, dictHeap>>
             ELSE \* self[phase] = OrderedDict(): a new row object under the key
                  /\ dictHeap' = Append(dictHeap, Get(res.tbl.rows, name))
                  /\ tabs' = [tabs EXCEPT ![t].rows = Put(@, name, Len(dictHeap) + 1)]
          /\ last' = [last EXCEPT !.op = "add_data", !.target = t, !.err = res.err,
                                  !.n = @ + 1, !.line = line]
    /\ UNCHANGED listHeap

\* thermodynamic_properties.add_data on the table object tp
ThermoAdd(line) ==
    /\ last.n < MaxCalls
    /\ LET res == ThermoAddData(View("tp"), line)
       IN /\ IF res.err # NoError
             THEN UNCHANGED <<tabs, dictHeap>>
             ELSE /\ dictHeap' = Append(dictHeap, Get(res.tbl.rows, line[1]))
                  /\ tabs' = [tabs EXCEPT !["tp"].rows = Put(@, line[1], Len(dictHeap) + 1)]
          /\ last' = [last EXCEPT !.op = "add_data", !.target = "tp", !.err = res.err,
                                  !.n = @ + 1, !.line = line]
    /\ UNCHANGED listHeap

\* cpy = src.copy()
Copy ==
    /\ last.n < MaxCalls
    /\ ~Exists("cpy")
    /\ LET res == RbiCopy(tabs["src"], listHeap, dictHeap)
       IN /\ tabs' = [tabs EXCEPT !["cpy"] = res.obj]
          /\ listHeap' = res.lists
          /\ dictHeap' = res.dicts
    /\ last' = [last EXCEPT !.op = "copy", !.target = "cpy", !.err = NoError,
                            !.n = @ + 1, !.line = <<>>]

\* the caller's t[phase][column] = v
SetValue(t, i, j, v) ==
    /\ last.n < MaxCalls
    /\ Exists(t) /\ tabs[t].kind = "rbi"
    /\ i \in 1..Len(tabs[t].rows)
    /\ j \in 1..Len(dictHeap[tabs[t].rows[i].val])
    /\ dictHeap' = [dictHeap EXCEPT ![tabs[t].rows[i].val][j].val = v]
    /\ last' = [last EXCEPT !.op = "set", !.target = t, !.err = NoError,
                            !.n = @ + 1, !.line = <<>>, !.edited = TRUE]
    /\ UNCHANGED <<tabs, listHeap>>

\* the caller's t.oxides.append(x)
AppendOxide(t, x) ==
    /\ last.n < MaxCalls
    /\ Exists(t) /\ tabs[t].kind = "rbi"
    /\ listHeap' = [listHeap EXCEPT ![tabs[t].header] = Append(@, x)]
    /\ last' = [last EXCEPT !.op = "oxides", !.target = t, !.err = NoError,
                            !.n = @ + 1, !.line = <<>>, !.edited = TRUE]
    /\ UNCHANGED <<tabs, dictHeap>>

(***************************************************************************)
(* SpecSite: site_fractions.  The object is its pending title              *)
(* (_data_title) and its groups, an OrderedDict from group name to an      *)
(* OrderedDict column -> value; a value is None until a value line fills   *)
(* it.                                                                     *)
(***************************************************************************)
Unset == [none |-> TRUE, tok |-> ""]

Filled(tok) == [none |-> FALSE, tok |-> tok]

\* currentdict[token] = None for every token
RECURSIVE PutNone(_, _)
PutNone(d, toks) ==
    IF toks = <<>> THEN d ELSE PutNone(Put(d, Head(toks), Unset), Tail(toks))

\* site_fractions.__init__
SiteInit == [title |-> Unset, groups |-> <<>>]

\* (mutant) a value line leaves _data_title set
SiteAddDataKeepTitle(obj, line) ==
    IF obj.title.none
    THEN IF Len(line) = 0 THEN [sf |-> obj, err |-> IndexError]
         ELSE [sf |-> [title |-> Filled(line[1]),
                       groups |-> Put(obj.groups, line[1], PutNone(<<>>, Tail(line)))],
               err |-> NoError]
    ELSE [sf |-> [obj EXCEPT !.groups =
                      Put(@, obj.title.tok,
                          PutZip(Get(@, obj.title.tok), Keys(Get(@, obj.title.tok)),
                                 [i \in 1..Len(line) |-> Filled(line[i])]))],
          err |-> NoError]

\* site_fractions.add_data: [sf, err]
SiteAddData(obj, line) ==
    IF obj.title.none
    THEN IF Len(line) = 0 THEN [sf |-> obj, err |-> IndexError]   \* splitline[0]
         ELSE [sf |-> [title |-> Filled(line[1]),
                       groups |-> Put(obj.groups, line[1], PutNone(<<>>, Tail(line)))],
               err |-> NoError]
    ELSE LET current == Get(obj.groups, obj.title.tok)
             values == [i \in 1..Len(line) |-> Filled(line[i])]
         IN [sf |-> [title |-> Unset,
                     groups |-> Put(obj.groups, obj.title.tok,
                                    PutZip(current, Keys(current), values))],
             err |-> NoError]

\* the token lists site_fractions.add_data is called with
SiteLines ==
    { <<"g", "xMgX", "xFeX">>, <<"0.13698", "0.82757">>, <<"bi", "xMgM3">>,
      <<"0.23132">>, <<"g", "xFeX", "xFeX">>, <<>> }

SiteIdle ==
    /\ sf = SiteInit
    /\ sfLast = [op |-> "idle"]

InitSite ==
    /\ sf = SiteInit
    /\ sfLast = [op |-> "new", lines |-> <<>>, err |-> NoError, prev |-> SiteInit, n |-> 0]

\* one call of add_data; sfLast.lines are the lines of the calls that returned
SiteAdd(line) ==
    /\ sfLast.n < MaxCalls
    /\ LET res == SiteAddData(sf, line)
       IN /\ sf' = res.sf
          /\ sfLast' = [op |-> "add_data",
                        lines |-> IF res.err = NoError THEN Append(sfLast.lines, line)
                                  ELSE sfLast.lines,
                        err |-> res.err, prev |-> sf, n |-> sfLast.n + 1]

(***************************************************************************)
(* Context.__init__: executable resolution.  A program is a directory part *)
(* and a file name; the empty string has neither.                          *)
(***************************************************************************)
Program(dir, name) == [dir |-> dir, name |-> name]

EmptyString == Program("", "")

\* which(program): the program itself when it names a directory, else the
\* first PATH entry holding an executable of that name; None when none is
Which(program, exes, path) ==
    IF program.dir # ""
    THEN IF program \in exes THEN program ELSE PyNone
    ELSE LET hits == {i \in 1..Len(path) : Program(path[i], program.name) \in exes}
         IN IF hits = {} THEN PyNone
            ELSE Program(path[CHOOSE i \in hits : \A j \in hits : i <= j], program.name)

\* the executable tiers of __init__: [exec, err]
ResolveExecutable(arg, env, exes, path) ==
    IF arg # PyNone /\ arg # EmptyString
    THEN [exec |-> Which(arg, exes, path),
          err |-> IF Which(arg, exes, path) = PyNone THEN RuntimeError("parameter")
                  ELSE NoError]
    ELSE IF env # PyNone
    THEN [exec |-> Which(env, exes, path),
          err |-> IF Which(env, exes, path) = PyNone THEN RuntimeError("environment")
                  ELSE NoError]
    ELSE [exec |-> Which(Program("", "thermo"), exes, path),
          err |-> IF Which(Program("", "thermo"), exes, path) = PyNone
                  THEN RuntimeError("thermo") ELSE NoError]

(***************************************************************************)
(* Context.reload: preferences file, dataset and script file of            *)
(* scripts_dir.  A directory is None or its files: whether tc-prefs.txt    *)
(* exists and its lines, the names of its other files, and the lines of    *)
(* its script file.                                                        *)
(***************************************************************************)
\* 'tc-ds' + x + '.txt' and 'tc-' + x + '.txt'
DsName(text) == [pre |-> "tc-ds", mid |-> text, post |-> ".txt"]

TcName(text) == [pre |-> "tc-", mid |-> text, post |-> ".txt"]

\* one pass of the read loop over a line of tc-prefs.txt
PrefsLine(prefs, line) ==
    LET splitline == Split(StripComment(line))
    IN IF Len(splitline) > 1 THEN Put(prefs, splitline[1], PyStr(Tok(splitline[2])))
       ELSE prefs

RECURSIVE ReadPrefs(_, _)
ReadPrefs(prefs, lines) ==
    IF lines = <<>> THEN prefs
    ELSE ReadPrefs(PrefsLine(prefs, Head(lines)), Tail(lines))

\* reload: [prefs, script, err]
ReloadAll(id, dir) ==
    IF dir = PyNone
    THEN [prefs |-> DefaultPrefs(id), script |-> DefaultScript, err |-> NoError]
    ELSE IF ~dir.hasPrefs
    THEN [prefs |-> DefaultPrefs(id), script |-> DefaultScript,
          err |-> RuntimeError("tc-prefs.txt")]
    ELSE LET prefs == ReadPrefs(DefaultPrefs(id), dir.prefs)
             fail(e) == [prefs |-> prefs, script |-> DefaultScript, err |-> e]
         IN IF ~Has(prefs, "scriptfile") THEN fail(RuntimeError("scriptfile"))
            ELSE IF Get(prefs, "dataset").t # "str" THEN fail(TypeError)
            ELSE IF DsName(Get(prefs, "dataset").s) \notin dir.files
                 THEN fail(RuntimeError("dataset file"))
            ELSE IF TcName(Get(prefs, "scriptfile").s) \notin dir.files
                 THEN fail(RuntimeError("script file"))
            ELSE [prefs |-> prefs,
                  script |-> ReloadScript(prefs, dir.script).script,
                  err |-> ReloadScript(prefs, dir.script).err]

(***************************************************************************)
(* SpecScript: a script file is read by reload, written by save_script and *)
(* the written lines are read again with the grammar of reload.            *)
(***************************************************************************)
\* a valid tc-prefs.txt
ValidPrefsFile ==
    <<Join(<<"calcmode", "1">>), Join(<<"dataset", "55">>), Join(<<"scriptfile", "test">>)>>

\* a scripts_dir with a valid tc-prefs.txt, tc-ds55.txt, the axfile and the
\* script file tc-test.txt made of the given lines
ScriptsDir(lines) ==
    [hasPrefs |-> TRUE, prefs |-> ValidPrefsFile,
     files |-> {DsName(Tok("55")), TcName(Tok("test")), TcName(Tok("mb50"))},
     script |-> lines]

\* the preferences reload reads from ValidPrefsFile
LoadedPrefs == ReadPrefs(DefaultPrefs("ident"), ValidPrefsFile)

\* the lines a script file is made of, as tokens
ScriptLineToks ==
    { <<"axfile">>,
      <<"with", "g">>,
      <<"with">>,
      <<"with", "bi", "%", "q">>,
      <<"with", "ask">>,
      <<"rbi", "SiO2", "Al2O3">>,
      <<"rbi", "q", "0.1", "1", "0">>,
      <<"rbi", "bi", "0.2", "3", "1">>,
      <<"rbi", "g", "0.5", "3">>,
      <<"xyzguess", "x(g)", "0.5">>,
      <<"xyzguess", "z(g)", "0.1", "0.2">>,
      <<"*">>,
      <<"%", "with", "g">> }

ScriptLines == {Join(toks) : toks \in ScriptLineToks}

\* a script file: with or without a leading axfile line, then up to MaxLines lines
ScriptFiles ==
    {h \o b : h \in {<<>>, <<Join(<<"axfile", "mb50">>)>>},
              b \in SeqsUpTo(ScriptLines, MaxLines)}

NoScript == <<>>

ScriptIdle ==
    /\ file = <<>>
    /\ script = NoScript
    /\ status = "idle"
    /\ err = NoError
    /\ written = <<>>
    /\ reread = NoScript
    /\ pc = "idle"

InitScript ==
    /\ file \in ScriptFiles
    /\ script = NoScript
    /\ status = "new"
    /\ err = NoError
    /\ written = <<>>
    /\ reread = NoScript
    /\ pc = "new"

\* Context.reload from a scripts_dir whose script file is `file`
Reload ==
    /\ pc = "new"
    /\ LET r == ReloadAll("ident", ScriptsDir(file))
       IN /\ script' = r.script
          /\ err' = r.err
          /\ status' = IF r.err = NoError THEN "loaded" ELSE "raised"
    /\ pc' = "loaded"
    /\ UNCHANGED <<file, written, reread>>

\* Context.save_script
Save ==
    /\ pc = "loaded"
    /\ written' = SaveScript(script)
    /\ pc' = "saved"
    /\ UNCHANGED <<file, script, status, err, reread>>

\* the written file read back by the read loop of reload
Reread ==
    /\ pc = "saved"
    /\ reread' = ReloadScript(LoadedPrefs, written).script
    /\ pc' = "reread"
    /\ UNCHANGED <<file, script, status, err, written>>

(***************************************************************************)
(* SpecCtx: a Context is constructed (resolve the executable, reload, make *)
(* the scratch directory), the caller changes its configuration, and       *)
(* execute runs step by step.                                              *)
(***************************************************************************)
OptTc == Program("/opt", "tc")

BinThermo == Program("/usr/bin", "thermo")

\* the scripts_dir values a Context is constructed with
CtxDirs ==
    { PyNone,
      ScriptsDir(<<Join(<<"axfile", "mb50">>)>>),
      ScriptsDir(<<Join(<<"axfile">>)>>),
      [ScriptsDir(<<Join(<<"axfile", "mb50">>)>>) EXCEPT !.hasPrefs = FALSE] }

Worlds ==
    [arg : {PyNone, EmptyString, OptTc, Program("", "thermo")},
     env : {PyNone, EmptyString, OptTc, Program("", "thermo")},
     exes : SUBSET {OptTc, BinThermo},
     tempDir : {"default", "given", "existing"},
     dir : CtxDirs]

SearchPath == <<"/usr/local/bin", "/usr/bin">>

NoRun == [pc |-> "idle", n |-> 0, launched |-> 0, wrote |-> {}, err |-> NoError,
          valid |-> TRUE, at |-> "", done |-> <<>>, proc |-> "none", res |-> <<>>,
          warned |-> {}, art |-> {}, same |-> {}]

CtxIdle ==
    /\ world = [arg |-> PyNone]
    /\ ctx = [pc |-> "idle"]
    /\ scratch = [exists |-> FALSE, created |-> FALSE, files |-> <<>>]
    /\ run = NoRun

InitCtx ==
    /\ world \in Worlds
    /\ ctx = [pc |-> "init", exec |-> PyNone, id |-> "ident", prefs |-> <<>>,
              script |-> <<>>, err |-> NoError, loaded |-> FALSE, edits |-> 0,
              since |-> 0]
    /\ scratch = [exists |-> world.tempDir = "existing", created |-> FALSE, files |-> <<>>]
    /\ run = NoRun

\* __init__: the executable
Resolve ==
    /\ ctx.pc = "init"
    /\ LET r == ResolveExecutable(world.arg, world.env, world.exes, SearchPath)
       IN ctx' = [ctx EXCEPT !.exec = r.exec, !.err = r.err,
                             !.pc = IF r.err = NoError THEN "resolved" ELSE "raised"]
    /\ UNCHANGED <<world, scratch, run>>

\* __init__: self.reload()
InitReload ==
    /\ ctx.pc = "resolved"
    /\ LET r == ReloadAll(ctx.id, world.dir)
       IN ctx' = [ctx EXCEPT !.prefs = r.prefs, !.script = r.script, !.err = r.err,
                             !.loaded = r.err = NoError,
                             !.pc = IF r.err = NoError THEN "loaded" ELSE "raised"]
    /\ UNCHANGED <<world, scratch, run>>

\* (mutant) the scratch directory is made before self.reload()
MakeTempDirBeforeReload ==
    /\ ctx.pc = "resolved"
    /\ scratch' = [scratch EXCEPT !.exists = TRUE, !.created = ~scratch.exists]
    /\ ctx' = [ctx EXCEPT !.pc = "ready"]
    /\ UNCHANGED <<world, run>>

\* __init__: the scratch directory
MakeTempDir ==
    /\ ctx.pc = "loaded"
    /\ scratch' = [scratch EXCEPT !.exists = TRUE, !.created = ~scratch.exists]
    /\ ctx' = [ctx EXCEPT !.pc = "ready"]
    /\ UNCHANGED <<world, run>>

\* the caller's changes of the configuration between calls
ConfigEdits ==
    { [on |-> "script", key |-> "axfile", val |-> PyNone],
      [on |-> "script", key |-> "axfile", val |-> PyStr(Tok("mb50"))],
      [on |-> "prefs", key |-> "calcmode", val |-> PyInt(2)],
      [on |-> "prefs", key |-> "calcmode", val |-> PyStr(Tok("x"))],
      [on |-> "prefs", key |-> "dataset", val |-> PyStr(Tok("55"))] }

\* del d[k]
Del(d, k) == SelectSeq(d, LAMBDA e : e.key # k)

Idle == ctx.pc = "ready" /\ run.pc \in {"idle", "returned", "raised"}

\* `run` describes the execute call under way, or the last one as long as
\* the configuration is the one it ran with; `art` are the artifacts the
\* program wrote in this call, `same` the files execute wrote since the
\* caller last changed the configuration
Forget(r) ==
    [r EXCEPT !.pc = "idle", !.launched = 0, !.wrote = {}, !.err = NoError, !.at = "",
              !.done = <<>>, !.proc = "none", !.res = <<>>, !.warned = {}, !.art = {},
              !.same = {}]

\* context.script[key] = val or context.prefs[key] = val
Edit(e) ==
    /\ Idle
    /\ ctx.edits < MaxEdits
    /\ ctx' = IF e.on = "script"
              THEN [ctx EXCEPT !.script = Put(@, e.key, e.val), !.edits = @ + 1,
                               !.since = @ + 1]
              ELSE [ctx EXCEPT !.prefs = Put(@, e.key, e.val), !.edits = @ + 1,
                               !.since = @ + 1]
    /\ run' = Forget(run)
    /\ UNCHANGED <<world, scratch>>

\* del context.script["axfile"]
DelAxfile ==
    /\ Idle
    /\ ctx.edits < MaxEdits
    /\ Has(ctx.script, "axfile")
    /\ ctx' = [ctx EXCEPT !.script = Del(@, "axfile"), !.edits = @ + 1, !.since = @ + 1]
    /\ run' = Forget(run)
    /\ UNCHANGED <<world, scratch>>

(***************************************************************************)
(* Context.execute: the scanners of tc-log.txt and of tc-<scriptfile>-ic.txt*)
(* A file is a sequence of lines; <<>> is the empty line.                  *)
(***************************************************************************)
PyFloat(v) == [t |-> "float", v |-> v]

PyDict(d) == [t |-> "dict", d |-> d]

PyText(lines) == [t |-> "text", lines |-> lines]

PySite(obj) == [t |-> "site_fractions", sf |-> obj]

PyThermo(tbl) == [t |-> "thermodynamic_properties", tbl |-> tbl]

\* float(tok): [err, v]
FloatOf(tok) ==
    CASE tok \in {"0.1", "0.2", "0.5", "0.13698", "0.82757"} -> [err |-> NoError, v |-> PyFloat(tok)]
      [] tok = "0.50" -> [err |-> NoError, v |-> PyFloat("0.5")]
      [] tok = "1" -> [err |-> NoError, v |-> PyFloat("1.0")]
      [] tok = "3" -> [err |-> NoError, v |-> PyFloat("3.0")]
      [] tok = "5" -> [err |-> NoError, v |-> PyFloat("5.0")]
      [] tok = "600" -> [err |-> NoError, v |-> PyFloat("600.0")]
      [] OTHER -> [err |-> ValueError, v |-> PyNone]

\* for k, v in zip(keys, values): d[k] = float(v); [d, err]
RECURSIVE ZipFloats(_, _, _)
ZipFloats(d, keys, values) ==
    IF keys = <<>> \/ values = <<>> THEN [d |-> d, err |-> NoError]
    ELSE IF FloatOf(Head(values)).err # NoError THEN [d |-> d, err |-> FloatOf(Head(values)).err]
    ELSE ZipFloats(Put(d, Head(keys), FloatOf(Head(values)).v), Tail(keys), Tail(values))

\* a list of str
StrList(toks) == PyList([i \in 1..Len(toks) |-> PyStr(Tok(toks[i]))])

\* the rbi branch of the log scanner: [res, err]
LogRbi(res, value) ==
    IF ~Has(res, "rbi") THEN [res |-> Put(res, "rbi", PyRbi(RbiInit(value))), err |-> NoError]
    ELSE [res |-> Put(res, "rbi", PyRbi(RbiAddData(Get(res, "rbi").tbl, value).tbl)),
          err |-> RbiAddData(Get(res, "rbi").tbl, value).err]

\* the ptguess branch: [res, err]
LogPtguess(res, value) ==
    IF Len(value) = 0 THEN [res |-> res, err |-> IndexError]
    ELSE IF Len(value) = 1
         THEN [res |-> Put(res, "P", PyStr(Tok(value[1]))), err |-> IndexError]
    ELSE [res |-> Put(Put(res, "P", PyStr(Tok(value[1]))), "T", PyStr(Tok(value[2]))),
          err |-> NoError]

\* the xyzguess branch: [res, err]
LogXyzguess(res, value) ==
    LET made == IF Has(res, "xyz") THEN res ELSE Put(res, "xyz", PyXyz(<<>>))
    IN IF Len(value) < 2 THEN [res |-> made, err |-> IndexError]
       ELSE IF FloatOf(value[2]).err # NoError
            THEN [res |-> made, err |-> FloatOf(value[2]).err]
       ELSE [res |-> Put(made, "xyz",
                         PyXyz(Put(Get(made, "xyz").d, value[1], FloatOf(value[2]).v))),
             err |-> NoError]

\* the mode branch, with the line read after the mode line: [res, err]
LogMode(res, value, nextline) ==
    LET modes == ZipFloats(<<>>, value, Split(nextline))
    IN IF modes.err # NoError THEN [res |-> res, err |-> modes.err]
       ELSE [res |-> Put(res, "modes", PyDict(modes.d)), err |-> NoError]

\* (mutant) the line after a mode line is dispatched as well
RECURSIVE ParseLogRescan(_, _)
ParseLogRescan(res, lines) ==
    IF lines = <<>> THEN [res |-> res, err |-> NoError]
    ELSE LET splitline == Split(Head(lines))
             key == splitline[1]
             value == Tail(splitline)
             rest == Tail(lines)
             step == IF key = "rbi" THEN LogRbi(res, value)
                     ELSE IF key = "phases:"
                          THEN [res |-> Put(res, "phases", StrList(value)), err |-> NoError]
                     ELSE IF key = "ptguess" THEN LogPtguess(res, value)
                     ELSE IF key = "xyzguess" THEN LogXyzguess(res, value)
                     ELSE IF key = "mode"
                          THEN LogMode(res, value, IF rest = <<>> THEN <<>> ELSE Head(rest))
                     ELSE [res |-> res, err |-> NoError]
         IN IF Len(splitline) = 0 THEN ParseLogRescan(res, rest)
            ELSE IF step.err # NoError THEN step
            ELSE ParseLogRescan(step.res, rest)

\* the read loop over tc-log.txt: [res, err]
RECURSIVE ParseLog(_, _)
ParseLog(res, lines) ==
    IF lines = <<>> THEN [res |-> res, err |-> NoError]
    ELSE LET splitline == Split(Head(lines))
             key == splitline[1]
             value == Tail(splitline)
             rest == Tail(lines)
             step == IF key = "rbi" THEN LogRbi(res, value)
                     ELSE IF key = "phases:"
                          THEN [res |-> Put(res, "phases", StrList(value)), err |-> NoError]
                     ELSE IF key = "ptguess" THEN LogPtguess(res, value)
                     ELSE IF key = "xyzguess" THEN LogXyzguess(res, value)
                     ELSE IF key = "mode"
                          THEN LogMode(res, value, IF rest = <<>> THEN <<>> ELSE Head(rest))
                     ELSE [res |-> res, err |-> NoError]
         IN IF Len(splitline) = 0 THEN ParseLog(res, rest)
            ELSE IF step.err # NoError THEN step
            ELSE ParseLog(step.res,
                          IF key = "mode" /\ rest # <<>> THEN Tail(rest) ELSE rest)

\* str.strip() of a line
StripText(text) ==
    LET full == {i \in 1..Len(text) : text[i].tok # ""}
    IN IF full = {} THEN <<>>
       ELSE LET lo == CHOOSE i \in full : \A j \in full : i <= j
                hi == CHOOSE i \in full : \A j \in full : j <= i
            IN [SubSeq(text, lo, hi) EXCEPT ![hi - lo + 1].pad = 0]

\* the lines of "site fractions" up to an empty line: [sf, err, rest]
RECURSIVE SiteSection(_, _)
SiteSection(obj, lines) ==
    IF lines = <<>> THEN [sf |-> obj, err |-> NoError, rest |-> <<>>]
    ELSE IF Head(lines) = <<>> THEN [sf |-> obj, err |-> NoError, rest |-> Tail(lines)]
    ELSE LET r == SiteAddData(obj, Split(Head(lines)))
         IN IF r.err # NoError THEN [sf |-> r.sf, err |-> r.err, rest |-> Tail(lines)]
            ELSE SiteSection(r.sf, Tail(lines))

\* (mutant) every row of "oxide compositions" is taken, whatever its key
RECURSIVE BulkSectionAllRows(_, _, _)
BulkSectionAllRows(d, keys, lines) ==
    IF lines = <<>> THEN [d |-> d, err |-> NoError, rest |-> <<>>]
    ELSE IF Head(lines) = <<>> THEN [d |-> d, err |-> NoError, rest |-> Tail(lines)]
    ELSE LET tokens == Split(Head(lines))
         IN IF tokens = <<>> THEN [d |-> d, err |-> IndexError, rest |-> Tail(lines)]
            ELSE LET z == ZipFloats(d, keys, Tail(tokens))
                 IN IF z.err # NoError THEN [d |-> z.d, err |-> z.err, rest |-> Tail(lines)]
                    ELSE BulkSectionAllRows(z.d, keys, Tail(lines))

\* the lines of "oxide compositions" after the keys, up to an empty line:
\* [d, err, rest]
RECURSIVE BulkSection(_, _, _)
BulkSection(d, keys, lines) ==
    IF lines = <<>> THEN [d |-> d, err |-> NoError, rest |-> <<>>]
    ELSE IF Head(lines) = <<>> THEN [d |-> d, err |-> NoError, rest |-> Tail(lines)]
    ELSE LET tokens == Split(Head(lines))
         IN IF tokens = <<>> THEN [d |-> d, err |-> IndexError, rest |-> Tail(lines)]
            ELSE IF tokens[1] # "bulk" THEN BulkSection(d, keys, Tail(lines))
            ELSE LET z == ZipFloats(d, keys, Tail(tokens))
                 IN IF z.err # NoError THEN [d |-> z.d, err |-> z.err, rest |-> Tail(lines)]
                    ELSE BulkSection(z.d, keys, Tail(lines))

\* the rows of the thermodynamic properties up to an empty line: [tbl, err, rest]
RECURSIVE ThermoSection(_, _)
ThermoSection(tbl, lines) ==
    IF lines = <<>> THEN [tbl |-> tbl, err |-> NoError, rest |-> <<>>]
    ELSE IF Head(lines) = <<>> THEN [tbl |-> tbl, err |-> NoError, rest |-> Tail(lines)]
    ELSE LET r == ThermoAddData(tbl, Split(Head(lines)))
         IN IF r.err # NoError THEN [tbl |-> r.tbl, err |-> r.err, rest |-> Tail(lines)]
            ELSE ThermoSection(r.tbl, Tail(lines))

\* the read loop over the ic file: [res, err]
RECURSIVE ParseIc(_, _)
ParseIc(res, lines) ==
    IF lines = <<>> THEN [res |-> res, err |-> NoError]
    ELSE LET line == StripText(Head(lines))
             rest == Tail(lines)
         IN IF line = Join(<<"site", "fractions">>)
            THEN LET sec == SiteSection(SiteInit, rest)
                 IN IF sec.err # NoError THEN [res |-> res, err |-> sec.err]
                    ELSE ParseIc(Put(res, "site_fractions", PySite(sec.sf)), sec.rest)
            ELSE IF line = Join(<<"oxide", "compositions">>)
            THEN LET keys == IF rest = <<>> THEN <<>> ELSE Split(Head(rest))
                     bulk == BulkSection(<<>>, keys, IF rest = <<>> THEN <<>> ELSE Tail(rest))
                     res1 == Put(res, "bulk_composition", PyDict(bulk.d))
                     after == bulk.rest
                 IN IF bulk.err # NoError THEN [res |-> res, err |-> bulk.err]
                    ELSE IF after = <<>> THEN [res |-> res1, err |-> NoError]
                    ELSE IF Head(after) = <<>> THEN ParseIc(res1, Tail(after))
                    ELSE LET th == ThermoSection(TabledInit(Split(Head(after))), Tail(after))
                         IN IF th.err # NoError THEN [res |-> res1, err |-> th.err]
                            ELSE ParseIc(Put(res1, "thermodynamic_properties",
                                             PyThermo(th.tbl)), th.rest)
            ELSE ParseIc(res, rest)

(***************************************************************************)
(* Context.execute, step by step.                                          *)
(***************************************************************************)
FileNotFoundError == [type |-> "FileNotFoundError"]

PrefsName == [pre |-> "tc-prefs", mid |-> <<>>, post |-> ".txt"]

\* the datasets directory of the tawnycalc module
ModuleFiles == {DsName(Tok("55")), TcName(Tok("mb50"))}

\* the files of the directory execute copies from (datasets_dir not given)
DatasetFiles == IF world.dir = PyNone THEN ModuleFiles ELSE world.dir.files

\* the lines save_prefs writes
SavePrefs(prefs) ==
    [i \in 1..Len(prefs) |->
        Spaced(Ljust(Tok(prefs[i].key), LongestKey(prefs) + 1), Format(prefs[i].val))]

\* a step of execute that raises: the exception leaves execute
Raise(e) == run' = [run EXCEPT !.pc = "raised", !.err = e, !.at = run.pc, !.res = <<>>]

\* a step of execute that writes a file into the scratch directory
WriteFile(name, content, next) ==
    /\ scratch' = [scratch EXCEPT !.files = Put(@, name, content)]
    /\ run' = [run EXCEPT !.pc = next, !.wrote = @ \cup {name}, !.done = Append(@, run.pc),
                          !.same = @ \cup {name}]

\* (mutant) check_config stores the calcmode it converted
ExecCheckStoresInt ==
    /\ Idle
    /\ run.n < MaxExec
    /\ LET e == CheckConfig(ctx.prefs, ctx.script)
       IN /\ run' = [pc |-> IF e = NoError THEN "save_prefs" ELSE "raised",
                     n |-> run.n + 1, launched |-> 0, wrote |-> {}, err |-> e,
                     valid |-> e = NoError, at |-> IF e = NoError THEN "" ELSE "check",
                     done |-> IF e = NoError THEN <<"check">> ELSE <<>>,
                     proc |-> "none", res |-> <<>>, warned |-> {}, art |-> {},
                     same |-> run.same]
          /\ ctx' = IF e = NoError THEN [ctx EXCEPT !.prefs = Put(@, "calcmode", PyInt(1))]
                    ELSE ctx
    /\ UNCHANGED <<world, scratch>>

\* execute is called: self.check_config()
ExecCheck ==
    /\ Idle
    /\ run.n < MaxExec
    /\ LET e == CheckConfig(ctx.prefs, ctx.script)
       IN run' = [pc |-> IF e = NoError THEN "save_prefs" ELSE "raised",
                  n |-> run.n + 1, launched |-> 0, wrote |-> {}, err |-> e,
                  valid |-> e = NoError, at |-> IF e = NoError THEN "" ELSE "check",
                  done |-> IF e = NoError THEN <<"check">> ELSE <<>>,
                  proc |-> "none", res |-> <<>>, warned |-> {}, art |-> {},
                  same |-> run.same]
    /\ UNCHANGED <<world, ctx, scratch>>

\* self.save_prefs(temp_dir/tc-prefs.txt)
ExecSavePrefs ==
    /\ run.pc = "save_prefs"
    /\ WriteFile(PrefsName, SavePrefs(ctx.prefs), "save_script")
    /\ UNCHANGED <<world, ctx>>

\* self.save_script(temp_dir/tc-<scriptfile>.txt)
ExecSaveScript ==
    /\ run.pc = "save_script"
    /\ IF Get(ctx.prefs, "scriptfile").t # "str"
       THEN Raise(TypeError) /\ UNCHANGED scratch
       ELSE WriteFile(TcName(Get(ctx.prefs, "scriptfile").s), SaveScript(ctx.script),
                      "copy_dataset")
    /\ UNCHANGED <<world, ctx>>

\* copyfile of the dataset file
ExecCopyDataset ==
    /\ run.pc = "copy_dataset"
    /\ LET name == DsName(Format(Get(ctx.prefs, "dataset")))
       IN IF name \in DatasetFiles
          THEN WriteFile(name, <<>>, "copy_axfile")
          ELSE Raise(FileNotFoundError) /\ UNCHANGED scratch
    /\ UNCHANGED <<world, ctx>>

\* copyfile of the axfile
ExecCopyAxfile ==
    /\ run.pc = "copy_axfile"
    /\ LET name == TcName(Format(Get(ctx.script, "axfile")))
       IN IF name \in DatasetFiles
          THEN WriteFile(name, <<>>, "launch")
          ELSE Raise(FileNotFoundError) /\ UNCHANGED scratch
    /\ UNCHANGED <<world, ctx>>

\* (mutant) the program is launched once the script file is written
ExecLaunchBeforeCopies ==
    /\ run.pc = "copy_dataset"
    /\ run' = [run EXCEPT !.pc = "communicate", !.launched = @ + 1, !.proc = "running",
                          !.done = Append(@, "launch")]
    /\ UNCHANGED <<world, ctx, scratch>>

\* Popen(self.exec, cwd=self.temp_dir, ...): the program is started
ExecLaunch ==
    /\ run.pc = "launch"
    /\ run' = [run EXCEPT !.pc = "communicate", !.launched = @ + 1, !.proc = "running",
                          !.done = Append(@, "launch")]
    /\ UNCHANGED <<world, ctx, scratch>>

LogName == [pre |-> "tc-log", mid |-> <<>>, post |-> ".txt"]

\* "tc-" + scriptfile + "-ic.txt"
IcName(text) == [pre |-> "tc-", mid |-> text, post |-> "-ic.txt"]

\* an artifact the program writes, an artifact it does not write
Written(lines) == [written |-> TRUE, lines |-> lines]

Absent == [written |-> FALSE, lines |-> <<>>]

\* the files of the scratch directory once the program has written `out`
Artifacts(files, icname, out) ==
    LET logged == IF out.log.written THEN Put(files, LogName, out.log.lines) ELSE files
    IN IF out.ic.written THEN Put(logged, icname, out.ic.lines) ELSE logged

\* the names of the artifacts in `out`
ArtifactNames(icname, out) ==
    (IF out.log.written THEN {LogName} ELSE {}) \cup (IF out.ic.written THEN {icname} ELSE {})

\* p.communicate(input=b'n\n') of execute(print_output=False): the program
\* writes its artifacts, its output is collected and it exits; results holds
\* the two output streams (the pipes themselves are modelled in SpecProc)
ExecCommunicate(out) ==
    /\ run.pc = "communicate"
    /\ scratch' = [scratch EXCEPT !.files =
                      Artifacts(@, IcName(Get(ctx.prefs, "scriptfile").s), out)]
    /\ run' = [run EXCEPT !.pc = "parse_log", !.proc = "exited",
                          !.done = Append(@, "communicate"),
                          !.art = ArtifactNames(IcName(Get(ctx.prefs, "scriptfile").s), out),
                          !.res = Put(Put(<<>>, "output_stdout", PyText(out.stdout)),
                                      "output_stderr", PyText(out.stderr))]
    /\ UNCHANGED <<world, ctx>>

\* the scan of tc-log.txt (an exception is raised again), then its raw text
ExecParseLog ==
    /\ run.pc = "parse_log"
    /\ IF ~Has(scratch.files, LogName) THEN Raise(FileNotFoundError)
       ELSE LET log == Get(scratch.files, LogName)
                r == ParseLog(run.res, log)
            IN IF r.err # NoError THEN Raise(r.err)
               ELSE run' = [run EXCEPT !.pc = "parse_ic", !.done = Append(@, "parse_log"),
                                       !.res = Put(r.res, "output_tc_log", PyText(log))]
    /\ UNCHANGED <<world, ctx, scratch>>

\* (mutant) a failure of the ic scanner discards what execute has gathered
ExecParseIcDiscard ==
    /\ run.pc = "parse_ic"
    /\ LET name == IcName(Get(ctx.prefs, "scriptfile").s)
       IN IF ~Has(scratch.files, name) THEN Raise(FileNotFoundError)
          ELSE LET ic == Get(scratch.files, name)
                   r == ParseIc(run.res, ic)
               IN run' = [run EXCEPT !.pc = "return", !.done = Append(@, "parse_ic"),
                                     !.warned = IF r.err = NoError THEN @ ELSE @ \cup {"ic"},
                                     !.res = Put(IF r.err = NoError THEN r.res ELSE <<>>,
                                                 "output_tc_ic", PyText(ic))]
    /\ UNCHANGED <<world, ctx, scratch>>

\* the scan of the ic file (an exception is a warning), then its raw text
ExecParseIc ==
    /\ run.pc = "parse_ic"
    /\ LET name == IcName(Get(ctx.prefs, "scriptfile").s)
       IN IF ~Has(scratch.files, name) THEN Raise(FileNotFoundError)
          ELSE LET ic == Get(scratch.files, name)
                   r == ParseIc(run.res, ic)
               IN run' = [run EXCEPT !.pc = "return", !.done = Append(@, "parse_ic"),
                                     !.warned = IF r.err = NoError THEN @ ELSE @ \cup {"ic"},
                                     !.res = Put(r.res, "output_tc_ic", PyText(ic))]
    /\ UNCHANGED <<world, ctx, scratch>>

\* return results
ExecReturn ==
    /\ run.pc = "return"
    /\ run' = [run EXCEPT !.pc = "returned", !.done = Append(@, "return")]
    /\ UNCHANGED <<world, ctx, scratch>>

(***************************************************************************)
(* What the program leaves behind: tc-log.txt, the ic file, its output.    *)
(***************************************************************************)
\* the lines a tc-log.txt is made of, as tokens
LogLineToks ==
    { <<"rbi", "SiO2">>,
      <<"rbi", "q", "0.1", "1">>,
      <<"rbi", "bi", "0.2">>,
      <<"phases:", "g", "bi">>,
      <<"ptguess", "5", "600">>,
      <<"ptguess", "5">>,
      <<"xyzguess", "x(g)", "0.50">>,
      <<"xyzguess", "x(g)", "x">>,
      <<"mode", "g", "bi">>,
      <<"mode">>,
      <<"0.5", "0.2">> }

LogFiles == SeqsUpTo({Join(toks) : toks \in LogLineToks}, MaxLogLines)

Lines(tokss) == [i \in 1..Len(tokss) |-> Join(tokss[i])]

\* the "site fractions" section of an ic file
SiteSections ==
    { <<>>,
      Lines(<< <<"site", "fractions">>, <<"g", "xMgX", "xFeX">>,
               <<"0.13698", "0.82757">>, <<>> >>),
      Lines(<< <<"site", "fractions">>, <<"g", "xMgX", "xFeX">>,
               <<"0.13698", "0.82757">>, <<"bi", "xMgM3">>, <<"0.23132">>, <<>> >>),
      Lines(<< <<"site", "fractions">>, <<"g", "xMgX", "xFeX">>, <<>> >>),
      Lines(<< <<"site", "fractions">>, <<"g", "xMgX", "xFeX">>, <<"0.13698">>, <<>> >>),
      << Join(<<"site", "fractions">>), <<Cell("", 2)>>, Join(<<"g", "xMgX">>), <<>> >> }

\* the "oxide compositions" section
OxideSections ==
    { <<>>,
      Lines(<< <<"oxide", "compositions">>, <<"SiO2", "Al2O3">>, <<"g", "0.5", "0.1">>,
               <<"bulk", "0.50", "0.2">>, <<>> >>),
      Lines(<< <<"oxide", "compositions">>, <<"SiO2", "Al2O3">>,
               <<"bulk", "0.5", "x">>, <<>> >>),
      Lines(<< <<"oxide", "compositions">>, <<"SiO2", "Al2O3">>, <<"g", "0.5", "0.1">>,
               <<>> >>),
      Lines(<< <<"oxide", "compositions">>, <<"SiO2", "Al2O3">>, <<"bulk", "0.5">>,
               <<>> >>) }

\* the thermodynamic properties that follow the oxide compositions
ThermoSections ==
    { <<>>,
      Lines(<< <<"H", "S">>, <<"g", "1", "3">>, <<"bi", "5", "1">>, <<>> >>),
      Lines(<< <<"H", "S">>, <<"g", "1", "3">>, <<"bi", "5">>, <<>> >>),
      Lines(<< <<"H", "S">>, <<"g", "1", "3">>, <<>>,
               <<"H", "S">>, <<"bi", "5", "1">>, <<>> >>) }

IcFiles ==
    {a \o b \o c : a \in SiteSections, b \in OxideSections, c \in ThermoSections}
        \cup {b \o c \o a : a \in SiteSections, b \in OxideSections, c \in ThermoSections}

\* a few logs and ic files: well formed, ill formed, not written
SomeLogs ==
    { Lines(<< <<"rbi", "SiO2">>, <<"rbi", "q", "0.1", "1">>, <<"ptguess", "5", "600">> >>),
      Lines(<< <<"phases:", "g", "bi">>, <<"rbi", "SiO2">>, <<"rbi", "bi", "0.2">> >>) }

\* an ic file of three well-formed sections
FullIc ==
    Lines(<< <<"site", "fractions">>, <<"g", "xMgX", "xFeX">>,
             <<"0.13698", "0.82757">>, <<>>,
             <<"oxide", "compositions">>, <<"SiO2", "Al2O3">>,
             <<"bulk", "0.50", "0.2">>, <<>>,
             <<"H", "S">>, <<"g", "1", "3">>, <<>> >>)

SomeIcs ==
    { FullIc,
      Lines(<< <<"oxide", "compositions">>, <<"SiO2", "Al2O3">>,
               <<"bulk", "0.50", "0.2">>, <<>>,
               <<"H", "S">>, <<"g", "1">>, <<>> >>) }

\* the program writes one of logs or no log, one of ics or no ic file
Outputs(logs, ics) ==
    [log : {Written(f) : f \in logs} \cup {Absent},
     ic : {Written(f) : f \in ics} \cup {Absent},
     stdout : {<<Tok("done")>>}, stderr : {<<>>}]

\* the program writes one of logs and the ic file FullIc
LogOutputs(logs) ==
    [log : {Written(f) : f \in logs}, ic : {Written(FullIc)},
     stdout : {<<Tok("done")>>}, stderr : {<<>>}]

\* what the program leaves behind in SpecCtx and in SpecParse
CtxOutputs == Outputs(SomeLogs, SomeIcs)

ParseOutputs ==
    LogOutputs(LogFiles) \cup Outputs(SomeLogs, IcFiles)

(***************************************************************************)
(* SpecParse: one execute call of a Context constructed on a valid         *)
(* scripts_dir; the program leaves behind any of ParseOutputs.             *)
(***************************************************************************)
ParseWorld ==
    [arg |-> OptTc, env |-> PyNone, exes |-> {OptTc}, tempDir |-> "default",
     dir |-> ScriptsDir(<<Join(<<"axfile", "mb50">>)>>)]

InitParse ==
    /\ world = ParseWorld
    /\ ctx = [pc |-> "ready", exec |-> OptTc, id |-> "ident",
              prefs |-> ReloadAll("ident", ParseWorld.dir).prefs,
              script |-> ReloadAll("ident", ParseWorld.dir).script,
              err |-> NoError, loaded |-> TRUE, edits |-> 0, since |-> 0]
    /\ scratch = [exists |-> TRUE, created |-> TRUE, files |-> <<>>]
    /\ run = NoRun

(***************************************************************************)
(* SpecPrefs: a Context is constructed on a scripts_dir whose tc-prefs.txt *)
(* is made of up to MaxPrefsLines lines.                                   *)
(***************************************************************************)
\* the lines a tc-prefs.txt is made of
PrefsLines ==
    { Join(<<"calcmode", "1">>),
      Join(<<"calcmode", "2">>),
      Join(<<"dataset", "55">>),
      Join(<<"scriptfile", "test">>),
      Join(<<"%", "dataset", "55">>),
      <<Cell("dataset", 1), Cell("55", 0), Cell("%", 0), Cell("x", 0)>>,
      Join(<<"calcmode", "%", "2">>),
      <<>> }

PrefsFiles == SeqsUpTo(PrefsLines, MaxPrefsLines)

\* the script files of SpecPrefs: one plain line; comments and blank lines
PrefsScripts ==
    { <<Join(<<"axfile", "mb50">>)>>,
      <<Join(<<"%", "*">>),
        <<Cell("axfile", 1), Cell("mb50", 0), Cell("%", 0), Cell("x", 0)>>,
        <<>>,
        <<Cell("", 2)>>,
        Join(<<"with", "g">>),
        Join(<<"%", "with", "q">>),
        Join(<<"with", "bi", "%", "q">>),
        Join(<<"*", "%", "x">>),
        Join(<<"with", "q">>)>> }

\* a scripts_dir with the given tc-prefs.txt and script file tc-test.txt, and
\* tc-ds55.txt and tc-mb50.txt
PrefsDir(lines, scr) == [ScriptsDir(scr) EXCEPT !.prefs = lines]

InitPrefs ==
    /\ world \in [arg : {OptTc}, env : {PyNone}, exes : {{OptTc}}, tempDir : {"default"},
                  dir : {PrefsDir(lines, scr) : lines \in PrefsFiles, scr \in PrefsScripts}]
    /\ ctx = [pc |-> "init", exec |-> PyNone, id |-> "ident", prefs |-> <<>>,
              script |-> <<>>, err |-> NoError, loaded |-> FALSE, edits |-> 0,
              since |-> 0]
    /\ scratch = [exists |-> FALSE, created |-> FALSE, files |-> <<>>]
    /\ run = NoRun

(***************************************************************************)
(* SpecReload: the caller changes the preferences and the script of a      *)
(* constructed Context and calls reload(), the files of scripts_dir having *)
(* changed or not; ctx.since counts the changes made since the last load.  *)
(***************************************************************************)
\* the contents of scripts_dir at a reload
ReloadDirs ==
    { ScriptsDir(Lines(<< <<"axfile", "mb50">>, <<"with", "g">>, <<"with", "q">>,
                          <<"rbi", "SiO2", "Al2O3">>, <<"rbi", "q", "0.1", "1", "0">>,
                          <<"xyzguess", "x(g)", "0.5">> >>)),
      ScriptsDir(Lines(<< <<"axfile", "mb50">>, <<"with", "g">> >>)),
      ScriptsDir(Lines(<< <<"axfile", "mb50">>, <<"with", "g">>, <<"with", "ask">>,
                          <<"with", "q">> >>)),
      ScriptsDir(Lines(<< <<"with", "g">> >>)),
      [ScriptsDir(Lines(<< <<"axfile", "mb50">> >>)) EXCEPT !.hasPrefs = FALSE],
      PrefsDir(ValidPrefsFile \o <<Join(<<"extra", "1">>)>>,
               Lines(<< <<"axfile", "mb50">>, <<"rbi", "SiO2">> >>)) }

\* what the caller does to context.prefs and context.script between loads
Mutations ==
    {"put_script", "put_prefs", "set_dataset", "set_with", "append_with", "add_rbi_row",
     "put_xyz", "del_autoexit"}

Mutated(c, m) ==
    CASE m = "put_script" -> [c EXCEPT !.script = Put(@, "calcs", PyStr(Tok("no")))]
      [] m = "put_prefs" -> [c EXCEPT !.prefs = Put(@, "spam", PyInt(1))]
      [] m = "set_dataset" -> [c EXCEPT !.prefs = Put(@, "dataset", PyStr(Tok("62")))]
      [] m = "set_with" -> [c EXCEPT !.script = Put(@, "with", PyStr(Tok("ky")))]
      [] m = "append_with" ->
            IF Has(c.script, "with") /\ Get(c.script, "with").t = "list"
            THEN [c EXCEPT !.script =
                     Put(@, "with", PyList(Append(Get(@, "with").items, PyStr(Tok("ky")))))]
            ELSE c
      [] m = "add_rbi_row" ->
            IF Has(c.script, "rbi")
            THEN [c EXCEPT !.script =
                     Put(@, "rbi",
                         PyRbi(RbiAddPhase(Get(@, "rbi").tbl, "ky", "0.3",
                                           [i \in 1..Len(Get(@, "rbi").tbl.header) |-> "1"]).tbl))]
            ELSE c
      [] m = "put_xyz" ->
            IF Has(c.script, "xyzguess")
            THEN [c EXCEPT !.script =
                     Put(@, "xyzguess", PyXyz(Put(Get(@, "xyzguess").d, "y(g)", <<"0.9">>)))]
            ELSE c
      [] m = "del_autoexit" -> [c EXCEPT !.script = Del(@, "autoexit")]

InitReloaded ==
    /\ world \in [arg : {OptTc}, env : {PyNone}, exes : {{OptTc}}, tempDir : {"default"},
                  dir : {d \in ReloadDirs \cup {PyNone} : ReloadAll("ident", d).err = NoError}]
    /\ ctx = [pc |-> "ready", exec |-> OptTc, id |-> "ident",
              prefs |-> ReloadAll("ident", world.dir).prefs,
              script |-> ReloadAll("ident", world.dir).script,
              err |-> NoError, loaded |-> TRUE, edits |-> 0, since |-> 0]
    /\ scratch = [exists |-> TRUE, created |-> TRUE, files |-> <<>>]
    /\ run = NoRun

\* the caller changes the configuration
Mutate(m) ==
    /\ Idle
    /\ ctx.edits < MaxEdits
    /\ Mutated(ctx, m) # ctx
    /\ ctx' = [Mutated(ctx, m) EXCEPT !.edits = @ + 1, !.since = @ + 1]
    /\ run' = Forget(run)
    /\ UNCHANGED <<world, scratch>>

\* (mutant) reload reads the files into the preferences and script it has
CtxReloadMerge(d) ==
    /\ Idle
    /\ (world.dir = PyNone) <=> (d = PyNone)
    /\ LET r == ReloadAll(ctx.id, d)
       IN ctx' = [ctx EXCEPT !.prefs = PutZip(@, Keys(r.prefs), Values(r.prefs)),
                             !.script = PutZip(@, Keys(r.script), Values(r.script)),
                             !.err = r.err, !.loaded = r.err = NoError, !.since = 0]
    /\ world' = [world EXCEPT !.dir = d]
    /\ run' = Forget(run)
    /\ UNCHANGED scratch

\* context.reload(), scripts_dir holding d by now
CtxReload(d) ==
    /\ Idle
    /\ (world.dir = PyNone) <=> (d = PyNone)
    /\ LET r == ReloadAll(ctx.id, d)
       IN ctx' = [ctx EXCEPT !.prefs = r.prefs, !.script = r.script,
                             !.err = r.err, !.loaded = r.err = NoError, !.since = 0]
    /\ world' = [world EXCEPT !.dir = d]
    /\ run' = Forget(run)
    /\ UNCHANGED scratch

(***************************************************************************)
(* Two Context objects of one process and the directories they execute in. *)
(* Context.__init__ chooses temp_dir (core.py 301-314); execute writes the  *)
(* configuration there and starts the program there (core.py 572-603).     *)
(***************************************************************************)
CtxNames == {"a", "b"}

\* randomword(): six letters drawn from string.ascii_lowercase, any outcome
RandomWords == {"aaaaaa", "zzzzzz"}

\* os.path.join(tempfile.gettempdir(), 'TC_' + self._id)
JoinTemp(id) == [at |-> "gettempdir", name |-> "TC_", id |-> id]

\* directories a caller may name: a new one, an existing one
GivenDirs == {[at |-> "/work", name |-> "", id |-> ""],
              [at |-> "/data", name |-> "", id |-> ""]}

ExistingDirs == {[at |-> "/data", name |-> "", id |-> ""]}

AllDirs == {JoinTemp(id) : id \in RandomWords} \cup GivenDirs

\* the temp_dir parameter: None (the default), '', or a path
TempDirArgs == {PyNone, PyStr(<<>>)} \cup AllDirs

NoContext == [alive |-> FALSE, id |-> "", arg |-> PyNone, temp_dir |-> PyNone,
              prefs |-> <<>>, script |-> <<>>, pc |-> "none", ran |-> <<>>]

PairIdle ==
    /\ ctxs = [c \in CtxNames |-> NoContext]
    /\ tmp = [d \in AllDirs |-> [exists |-> FALSE, files |-> <<>>]]

InitPair ==
    /\ ctxs = [c \in CtxNames |-> NoContext]
    /\ tmp = [d \in AllDirs |-> [exists |-> d \in ExistingDirs, files |-> <<>>]]

\* Context(scripts_dir=None, temp_dir=arg), the executable found; id is what
\* randomword() returned
Construct(c, arg, id) ==
    /\ ~ctxs[c].alive
    /\ LET dir == IF arg \in {PyNone, PyStr(<<>>)} THEN JoinTemp(id) ELSE arg
       IN /\ ctxs' = [ctxs EXCEPT ![c] = [alive |-> TRUE, id |-> id, arg |-> arg,
                                         temp_dir |-> dir,
                                         prefs |-> DefaultPrefs(id),
                                         script |-> DefaultScript, pc |-> "idle",
                                         ran |-> <<>>]]
          /\ tmp' = [tmp EXCEPT ![dir].exists = TRUE]

\* the caller sets what execute needs: context.script['axfile'], context.prefs['dataset']
PairEdits ==
    { [on |-> "script", key |-> "axfile", val |-> PyStr(Tok("mb50"))],
      [on |-> "prefs", key |-> "dataset", val |-> PyStr(Tok("55"))] }

Configure(c, e) ==
    /\ ctxs[c].pc = "idle"
    /\ IF e.on = "script" THEN ~(Get(ctxs[c].script, e.key) = e.val)
                          ELSE ~(Get(ctxs[c].prefs, e.key) = e.val)
    /\ ctxs' = IF e.on = "script"
               THEN [ctxs EXCEPT ![c].script = Put(@, e.key, e.val)]
               ELSE [ctxs EXCEPT ![c].prefs = Put(@, e.key, e.val)]
    /\ UNCHANGED tmp

\* a file of a directory: who wrote it, its lines
FileBy(c, lines) == [by |-> c, lines |-> lines]

\* execute of context c up to check_config; a failed check raises
PairCheck(c) ==
    /\ ctxs[c].pc = "idle"
    /\ CheckConfig(ctxs[c].prefs, ctxs[c].script) = NoError
    /\ ctxs' = [ctxs EXCEPT ![c].pc = "save_prefs", ![c].ran = <<>>]
    /\ UNCHANGED tmp

\* self.save_prefs(os.path.join(self.temp_dir, "tc-prefs.txt"))
PairSavePrefs(c) ==
    /\ ctxs[c].pc = "save_prefs"
    /\ tmp' = [tmp EXCEPT ![ctxs[c].temp_dir].files =
                   Put(@, PrefsName, FileBy(c, SavePrefs(ctxs[c].prefs)))]
    /\ ctxs' = [ctxs EXCEPT ![c].pc = "save_script"]

\* self.save_script(...), then the two copyfile calls from the module's
\* datasets directory; a missing file raises FileNotFoundError
PairSaveScript(c) ==
    /\ ctxs[c].pc = "save_script"
    /\ LET dir == ctxs[c].temp_dir
           ds == DsName(Format(Get(ctxs[c].prefs, "dataset")))
           ax == TcName(Format(Get(ctxs[c].script, "axfile")))
           f1 == Put(tmp[dir].files, TcName(Get(ctxs[c].prefs, "scriptfile").s),
                     FileBy(c, SaveScript(ctxs[c].script)))
           f2 == Put(f1, ds, FileBy(c, <<>>))
           f3 == Put(f2, ax, FileBy(c, <<>>))
       IN IF ds \notin ModuleFiles
          THEN tmp' = [tmp EXCEPT ![dir].files = f1]
               /\ ctxs' = [ctxs EXCEPT ![c].pc = "idle"]
          ELSE IF ax \notin ModuleFiles
          THEN tmp' = [tmp EXCEPT ![dir].files = f2]
               /\ ctxs' = [ctxs EXCEPT ![c].pc = "idle"]
          ELSE tmp' = [tmp EXCEPT ![dir].files = f3]
               /\ ctxs' = [ctxs EXCEPT ![c].pc = "launch"]

\* Popen(self.exec, cwd=self.temp_dir, ...): the program reads the tc-prefs.txt
\* of its working directory, whoever wrote it; execute then returns
PairLaunch(c) ==
    /\ ctxs[c].pc = "launch"
    /\ ctxs' = [ctxs EXCEPT ![c].pc = "idle",
                            ![c].ran = <<Get(tmp[ctxs[c].temp_dir].files, PrefsName)>>]
    /\ UNCHANGED tmp

(***************************************************************************)
(* execute from Popen to the results dictionary (core.py 602-622): the     *)
(* program, its stdin and stdout pipes, and the calls that read and write  *)
(* them.  Lines are short, so a pipe holds whatever is written to it.      *)
(***************************************************************************)
\* one step of the program: it writes a line to stdout or reads a line from stdin
ProgSteps == {"P 11", "T 850", "readline"}

MaxProgSteps == 3

Programs == SeqsUpTo(ProgSteps, MaxProgSteps)

NoPipes == [stdin |-> <<>>, stdinClosed |-> FALSE, stdout |-> <<>>, stdoutClosed |-> FALSE]

NoWrap == [pc |-> "idle", print_output |-> FALSE, printed |-> <<>>, std_data |-> <<>>,
           sent |-> FALSE, output_stdout |-> <<>>]

ProcIdle ==
    /\ prog = [pc |-> "none", todo |-> <<>>, wrote |-> <<>>]
    /\ pipes = NoPipes
    /\ wrap = NoWrap

\* execute(print_output=...) about to start a program
InitProc ==
    /\ prog \in {[pc |-> "none", todo |-> t, wrote |-> <<>>] : t \in Programs}
    /\ pipes = NoPipes
    /\ wrap \in {[NoWrap EXCEPT !.print_output = b] : b \in BOOLEAN}

\* p = Popen(self.exec, cwd=self.temp_dir, stdout=PIPE, stdin=PIPE, stderr=PIPE)
Popen ==
    /\ wrap.pc = "idle"
    /\ wrap' = [wrap EXCEPT !.pc = IF wrap.print_output THEN "print_loop" ELSE "communicate"]
    /\ prog' = [prog EXCEPT !.pc = "running"]
    /\ UNCHANGED pipes

\* the program writes a line to its stdout
ProgWrite ==
    /\ prog.pc = "running"
    /\ prog.todo # <<>>
    /\ Head(prog.todo) # "readline"
    /\ pipes' = [pipes EXCEPT !.stdout = Append(@, Head(prog.todo))]
    /\ prog' = [prog EXCEPT !.todo = Tail(@), !.wrote = Append(@, Head(prog.todo))]
    /\ UNCHANGED wrap

\* the program reads a line from its stdin: it waits while the pipe is empty
\* and open, and reads end of file once it is closed
ProgRead ==
    /\ prog.pc = "running"
    /\ prog.todo # <<>>
    /\ Head(prog.todo) = "readline"
    /\ pipes.stdin # <<>> \/ pipes.stdinClosed
    /\ pipes' = [pipes EXCEPT !.stdin = IF @ = <<>> THEN @ ELSE Tail(@)]
    /\ prog' = [prog EXCEPT !.todo = Tail(@)]
    /\ UNCHANGED wrap

\* the program exits, which closes its end of stdout
ProgExit ==
    /\ prog.pc = "running"
    /\ prog.todo = <<>>
    /\ prog' = [prog EXCEPT !.pc = "exited"]
    /\ pipes' = [pipes EXCEPT !.stdoutClosed = TRUE]
    /\ UNCHANGED wrap

\* for line in iter(p.stdout.readline, b''): print(...): readline waits while
\* the pipe is empty and open
PrintLine ==
    /\ wrap.pc = "print_loop"
    /\ pipes.stdout # <<>>
    /\ wrap' = [wrap EXCEPT !.printed = Append(@, Head(pipes.stdout))]
    /\ pipes' = [pipes EXCEPT !.stdout = Tail(@)]
    /\ UNCHANGED prog

\* readline returns b'' at end of file and the loop ends
PrintEnd ==
    /\ wrap.pc = "print_loop"
    /\ pipes.stdout = <<>>
    /\ pipes.stdoutClosed
    /\ wrap' = [wrap EXCEPT !.pc = "communicate"]
    /\ UNCHANGED <<prog, pipes>>

\* p.communicate(input=b'n\n') writes the input and closes stdin
CommSend ==
    /\ wrap.pc = "communicate"
    /\ ~wrap.sent
    /\ pipes' = [pipes EXCEPT !.stdin = Append(@, "n"), !.stdinClosed = TRUE]
    /\ wrap' = [wrap EXCEPT !.sent = TRUE]
    /\ UNCHANGED prog

\* p.communicate reads what is in stdout
CommRead ==
    /\ wrap.pc = "communicate"
    /\ pipes.stdout # <<>>
    /\ wrap' = [wrap EXCEPT !.std_data = Append(@, Head(pipes.stdout))]
    /\ pipes' = [pipes EXCEPT !.stdout = Tail(@)]
    /\ UNCHANGED prog

\* p.communicate returns at end of file once the program has exited;
\* results["output_stdout"] = std_data[0].decode("cp437")
CommReturn ==
    /\ wrap.pc = "communicate"
    /\ wrap.sent
    /\ pipes.stdout = <<>>
    /\ pipes.stdoutClosed
    /\ prog.pc = "exited"
    /\ wrap' = [wrap EXCEPT !.pc = "results", !.output_stdout = wrap.std_data]
    /\ UNCHANGED <<prog, pipes>>

(***************************************************************************)
(* The specifications.                                                     *)
(***************************************************************************)
NextScript ==
    \/ Reload /\ UNCHANGED <<tableVars, siteVars, ctxVars, pairVars, procVars>>
    \/ Save /\ UNCHANGED <<tableVars, siteVars, ctxVars, pairVars, procVars>>
    \/ Reread /\ UNCHANGED <<tableVars, siteVars, ctxVars, pairVars, procVars>>

StartScript == InitScript /\ TableIdle /\ SiteIdle /\ CtxIdle /\ PairIdle /\ ProcIdle

SpecScript == StartScript /\ [][NextScript]_vars

NextTable ==
    \/ \E t \in {"src", "cpy"}, line \in RbiDataLines :
           RbiAdd(t, line) /\ UNCHANGED <<scriptVars, siteVars, ctxVars, pairVars, procVars>>
    \/ \E line \in ThermoDataLines :
           ThermoAdd(line) /\ UNCHANGED <<scriptVars, siteVars, ctxVars, pairVars, procVars>>
    \/ Copy /\ UNCHANGED <<scriptVars, siteVars, ctxVars, pairVars, procVars>>
    \/ \E t \in {"src", "cpy"}, i \in 1..2, j \in 1..3, v \in CellValues :
           SetValue(t, i, j, v) /\ UNCHANGED <<scriptVars, siteVars, ctxVars, pairVars, procVars>>
    \/ \E t \in {"src", "cpy"}, x \in NewOxides :
           AppendOxide(t, x) /\ UNCHANGED <<scriptVars, siteVars, ctxVars, pairVars, procVars>>

StartTable == InitTable /\ ScriptIdle /\ SiteIdle /\ CtxIdle /\ PairIdle /\ ProcIdle

SpecTable == StartTable /\ [][NextTable]_vars

NextSite ==
    \E line \in SiteLines : SiteAdd(line) /\ UNCHANGED <<scriptVars, tableVars, ctxVars, pairVars, procVars>>

StartSite == InitSite /\ ScriptIdle /\ TableIdle /\ CtxIdle /\ PairIdle /\ ProcIdle

SpecSite == StartSite /\ [][NextSite]_vars

NextCtx ==
    \/ Resolve /\ UNCHANGED <<scriptVars, tableVars, siteVars, pairVars, procVars>>
    \/ InitReload /\ UNCHANGED <<scriptVars, tableVars, siteVars, pairVars, procVars>>
    \/ MakeTempDir /\ UNCHANGED <<scriptVars, tableVars, siteVars, pairVars, procVars>>
    \/ \E e \in ConfigEdits : Edit(e) /\ UNCHANGED <<scriptVars, tableVars, siteVars, pairVars, procVars>>
    \/ DelAxfile /\ UNCHANGED <<scriptVars, tableVars, siteVars, pairVars, procVars>>
    \/ ExecCheck /\ UNCHANGED <<scriptVars, tableVars, siteVars, pairVars, procVars>>
    \/ ExecSavePrefs /\ UNCHANGED <<scriptVars, tableVars, siteVars, pairVars, procVars>>
    \/ ExecSaveScript /\ UNCHANGED <<scriptVars, tableVars, siteVars, pairVars, procVars>>
    \/ ExecCopyDataset /\ UNCHANGED <<scriptVars, tableVars, siteVars, pairVars, procVars>>
    \/ ExecCopyAxfile /\ UNCHANGED <<scriptVars, tableVars, siteVars, pairVars, procVars>>
    \/ ExecLaunch /\ UNCHANGED <<scriptVars, tableVars, siteVars, pairVars, procVars>>
    \/ /\ run.pc = "communicate"
       /\ \E out \in CtxOutputs :
              ExecCommunicate(out) /\ UNCHANGED <<scriptVars, tableVars, siteVars, pairVars, procVars>>
    \/ ExecParseLog /\ UNCHANGED <<scriptVars, tableVars, siteVars, pairVars, procVars>>
    \/ ExecParseIc /\ UNCHANGED <<scriptVars, tableVars, siteVars, pairVars, procVars>>
    \/ ExecReturn /\ UNCHANGED <<scriptVars, tableVars, siteVars, pairVars, procVars>>

StartCtx == InitCtx /\ ScriptIdle /\ TableIdle /\ SiteIdle /\ PairIdle /\ ProcIdle

SpecCtx == StartCtx /\ [][NextCtx]_vars

NextPrefs ==
    \/ Resolve /\ UNCHANGED <<scriptVars, tableVars, siteVars, pairVars, procVars>>
    \/ InitReload /\ UNCHANGED <<scriptVars, tableVars, siteVars, pairVars, procVars>>
    \/ MakeTempDir /\ UNCHANGED <<scriptVars, tableVars, siteVars, pairVars, procVars>>

StartPrefs == InitPrefs /\ ScriptIdle /\ TableIdle /\ SiteIdle /\ PairIdle /\ ProcIdle

SpecPrefs == StartPrefs /\ [][NextPrefs]_vars

NextParse ==
    \/ (run.n = 0 /\ ExecCheck) /\ UNCHANGED <<scriptVars, tableVars, siteVars, pairVars, procVars>>
    \/ ExecSavePrefs /\ UNCHANGED <<scriptVars, tableVars, siteVars, pairVars, procVars>>
    \/ ExecSaveScript /\ UNCHANGED <<scriptVars, tableVars, siteVars, pairVars, procVars>>
    \/ ExecCopyDataset /\ UNCHANGED <<scriptVars, tableVars, siteVars, pairVars, procVars>>
    \/ ExecCopyAxfile /\ UNCHANGED <<scriptVars, tableVars, siteVars, pairVars, procVars>>
    \/ ExecLaunch /\ UNCHANGED <<scriptVars, tableVars, siteVars, pairVars, procVars>>
    \/ /\ run.pc = "communicate"
       /\ \E out \in ParseOutputs :
              ExecCommunicate(out) /\ UNCHANGED <<scriptVars, tableVars, siteVars, pairVars, procVars>>
    \/ ExecParseLog /\ UNCHANGED <<scriptVars, tableVars, siteVars, pairVars, procVars>>
    \/ ExecParseIc /\ UNCHANGED <<scriptVars, tableVars, siteVars, pairVars, procVars>>
    \/ ExecReturn /\ UNCHANGED <<scriptVars, tableVars, siteVars, pairVars, procVars>>

StartParse == InitParse /\ ScriptIdle /\ TableIdle /\ SiteIdle /\ PairIdle /\ ProcIdle

SpecParse == StartParse /\ [][NextParse]_vars

NextReload ==
    \/ \E m \in Mutations : Mutate(m) /\ UNCHANGED <<scriptVars, tableVars, siteVars, pairVars, procVars>>
    \/ \E d \in ReloadDirs \cup {PyNone} :
           CtxReload(d) /\ UNCHANGED <<scriptVars, tableVars, siteVars, pairVars, procVars>>

StartReload == InitReloaded /\ ScriptIdle /\ TableIdle /\ SiteIdle /\ PairIdle /\ ProcIdle

SpecReload == StartReload /\ [][NextReload]_vars

NextPair ==
    \/ \E c \in CtxNames, arg \in TempDirArgs, id \in RandomWords :
           Construct(c, arg, id) /\ UNCHANGED <<scriptVars, tableVars, siteVars, ctxVars, procVars>>
    \/ \E c \in CtxNames, e \in PairEdits :
           Configure(c, e) /\ UNCHANGED <<scriptVars, tableVars, siteVars, ctxVars, procVars>>
    \/ \E c \in CtxNames :
           PairCheck(c) /\ UNCHANGED <<scriptVars, tableVars, siteVars, ctxVars, procVars>>
    \/ \E c \in CtxNames :
           PairSavePrefs(c) /\ UNCHANGED <<scriptVars, tableVars, siteVars, ctxVars, procVars>>
    \/ \E c \in CtxNames :
           PairSaveScript(c) /\ UNCHANGED <<scriptVars, tableVars, siteVars, ctxVars, procVars>>
    \/ \E c \in CtxNames :
           PairLaunch(c) /\ UNCHANGED <<scriptVars, tableVars, siteVars, ctxVars, procVars>>

StartPair == InitPair /\ ScriptIdle /\ TableIdle /\ SiteIdle /\ CtxIdle /\ ProcIdle

SpecPair == StartPair /\ [][NextPair]_vars

NextProc ==
    \/ Popen /\ UNCHANGED <<scriptVars, tableVars, siteVars, ctxVars, pairVars>>
    \/ ProgWrite /\ UNCHANGED <<scriptVars, tableVars, siteVars, ctxVars, pairVars>>
    \/ ProgRead /\ UNCHANGED <<scriptVars, tableVars, siteVars, ctxVars, pairVars>>
    \/ ProgExit /\ UNCHANGED <<scriptVars, tableVars, siteVars, ctxVars, pairVars>>
    \/ PrintLine /\ UNCHANGED <<scriptVars, tableVars, siteVars, ctxVars, pairVars>>
    \/ PrintEnd /\ UNCHANGED <<scriptVars, tableVars, siteVars, ctxVars, pairVars>>
    \/ CommSend /\ UNCHANGED <<scriptVars, tableVars, siteVars, ctxVars, pairVars>>
    \/ CommRead /\ UNCHANGED <<scriptVars, tableVars, siteVars, ctxVars, pairVars>>
    \/ CommReturn /\ UNCHANGED <<scriptVars, tableVars, siteVars, ctxVars, pairVars>>

StartProc == InitProc /\ ScriptIdle /\ TableIdle /\ SiteIdle /\ CtxIdle /\ PairIdle

SpecProc == StartProc /\ [][NextProc]_vars

\* both processes are scheduled: a step that can be taken is eventually taken
SpecProcLive == StartProc /\ [][NextProc]_vars /\ WF_vars(NextProc)

Spec == SpecScript

(***************************************************************************)
(* Properties of the script file reader and writer (SpecScript).           *)
(***************************************************************************)
\* the directive lines of a file as tokens: comments stripped, blank lines
\* dropped, nothing from the first '*' line on
RECURSIVE Directives(_)
Directives(lines) ==
    IF lines = <<>> THEN <<>>
    ELSE LET toks == Split(StripComment(Head(lines)))
         IN IF toks = <<>> THEN Directives(Tail(lines))
            ELSE IF toks[1] = "*" THEN <<>>
            ELSE <<toks>> \o Directives(Tail(lines))

DirectivesOf(k) == SelectSeq(Directives(file), LAMBDA d : d[1] = k)

\* the per-occurrence values of key k, in file order
OccurrenceValues(k) ==
    LET occ == DirectivesOf(k)
    IN [i \in 1..Len(occ) |->
           IF Len(occ[i]) = 1 THEN PyNone ELSE PyStr(Join(Tail(occ[i])))]

\* reload has read the whole file (it returned, or only check_config raised)
ReadThrough == pc # "new" /\ err \in {NoError, RuntimeError("valid axfile")}

\* C1: for every key other than xyzguess and rbi of a script file reload has
\* read, one occurrence is stored as a scalar (the joined arguments or None)
\* and n >= 2 occurrences as the list of the n per-occurrence values in file
\* order.
C1_ScalarThenList ==
    ReadThrough =>
        \A k \in {d[1] : d \in Range(Directives(file))} \ {"xyzguess", "rbi"} :
            LET occ == OccurrenceValues(k)
            IN /\ Has(script, k)
               /\ Len(occ) = 1 => Get(script, k) = occ[1]
               /\ Len(occ) >= 2 => Get(script, k) = PyList(occ)

\* a key read three times (one of them without a value) is stored as a list of three
C1_Witness ==
    /\ pc = "loaded" /\ err = NoError
    /\ Len(DirectivesOf("with")) = 3
    /\ PyNone \in Range(OccurrenceValues("with"))
    /\ Get(script, "with").t = "list"

\* C2: a script loaded by reload, written by save_script and read back with
\* the grammar of reload is key for key and value for value the script that
\* was written.
C2_RoundTrip == (pc = "reread" /\ status = "loaded") => reread = script

\* a value of the script that is None or a list holding None
HoldsNone(v) ==
    \/ v = PyNone
    \/ v.t = "list" /\ \E i \in 1..Len(v.items) : v.items[i] = PyNone

\* C2 holds of the scripts that hold no None: the written file reads back equal
C2_NoneFree ==
    (pc = "reread" /\ status = "loaded"
        /\ \A i \in 1..Len(script) : ~HoldsNone(script[i].val)) => reread = script

\* the rbi header line and the rbi data lines of the file, the xyzguess lines
RbiHeaderLine == DirectivesOf("rbi")[1]

RbiRowLines == IF DirectivesOf("rbi") = <<>> THEN <<>> ELSE Tail(DirectivesOf("rbi"))

XyzLines == DirectivesOf("xyzguess")

\* a file of one valued axfile line, rbi lines whose data rows have a phase, a
\* mode and one value per oxide of the header, and xyzguess lines naming a
\* component
TableFile ==
    /\ \A d \in Range(Directives(file)) : d[1] \in {"axfile", "rbi", "xyzguess"}
    /\ Len(DirectivesOf("axfile")) = 1 /\ Len(DirectivesOf("axfile")[1]) > 1
    /\ \A d \in Range(RbiRowLines) : Len(d) = Len(RbiHeaderLine) + 2
    /\ \A d \in Range(XyzLines) : Len(d) >= 2

\* the last xyzguess line of a component
LastXyz(c) ==
    XyzLines[CHOOSE i \in 1..Len(XyzLines) :
                 /\ XyzLines[i][2] = c
                 /\ \A j \in (i + 1)..Len(XyzLines) : XyzLines[j][2] # c]

\* C7: the first rbi line only makes the table with its oxide header, every
\* later rbi line of a distinct phase adds one row and every xyzguess line of
\* a distinct component one entry (component -> remaining tokens); a file of
\* an axfile line, one rbi header, k rbi rows and m xyzguess lines loads
\* without error into k rows and m entries.
C7_RbiRowsAndXyzEntries ==
    pc # "new" =>
        /\ TableFile => err = NoError
        /\ err = NoError =>
             /\ Has(script, "rbi") <=> DirectivesOf("rbi") # <<>>
             /\ Has(script, "rbi") =>
                  /\ Get(script, "rbi").tbl.header = Tail(RbiHeaderLine)
                  /\ Len(Get(script, "rbi").tbl.rows)
                       = Cardinality({d[2] : d \in Range(RbiRowLines)})
                  /\ \A d \in Range(RbiRowLines) : Has(Get(script, "rbi").tbl.rows, d[2])
             /\ Has(script, "xyzguess") <=> XyzLines # <<>>
             /\ Has(script, "xyzguess") =>
                  /\ Len(Get(script, "xyzguess").d)
                       = Cardinality({d[2] : d \in Range(XyzLines)})
                  /\ \A d \in Range(XyzLines) :
                         /\ Has(Get(script, "xyzguess").d, d[2])
                         /\ Get(Get(script, "xyzguess").d, d[2])
                              = SubSeq(LastXyz(d[2]), 3, Len(LastXyz(d[2])))

\* an axfile line, the rbi header, one rbi row and one xyzguess line, loaded
C7_Witness ==
    /\ pc = "loaded" /\ err = NoError /\ TableFile
    /\ Len(RbiRowLines) = 1 /\ Len(XyzLines) = 1
    /\ Len(Get(script, "rbi").tbl.rows) = 1
    /\ Len(Get(script, "xyzguess").d) = 1

(***************************************************************************)
(* Properties of the table objects (SpecTable).                            *)
(***************************************************************************)
Tables == {t \in {"src", "cpy", "tp"} : Exists(t)}

\* the columns a row of table t must have: the header, and mode for rbi
RowWidth(t) == Len(View(t).header) + (IF tabs[t].kind = "rbi" THEN 1 ELSE 0)

\* C3: after any sequence of add_data calls (the caller changing nothing by
\* hand), also calls that raised, every row of a table has one value per
\* header column (and mode, for rbi): a rejected line leaves no row.
C3_RowsMatchHeader ==
    (last.op # "idle" /\ ~last.edited) =>
        \A t \in Tables : \A i \in 1..Len(View(t).rows) :
            Len(View(t).rows[i].val) = RowWidth(t)

\* the values a line supplies: its tokens after the row key (and the mode)
Supplied(t, line) ==
    IF tabs[t].kind = "rbi" THEN Max(0, Len(line) - 2) ELSE Len(line) - 1

\* the line has a row key (and, for rbi, a mode)
Keyed(t, line) == Len(line) >= (IF tabs[t].kind = "rbi" THEN 2 ELSE 1)

\* C4: add_data raises whenever the count of values supplied differs from
\* the header length, the error naming the row key, the header length and
\* the count supplied; a line of exactly the expected count does not raise.
C4_CountErrorNamed ==
    last.op = "add_data" =>
        LET t == last.target
            line == last.line
            expected == Len(View(t).header)
        IN IF Len(line) # expected + (IF tabs[t].kind = "rbi" THEN 2 ELSE 1)
           THEN /\ last.err.type = "RuntimeError"
                /\ Keyed(t, line) =>
                     last.err = CountError(IF tabs[t].kind = "rbi" THEN "rbi" ELSE "thermo",
                                           expected, Supplied(t, line), line[1])
           ELSE last.err = NoError

\* C4 holds of every line that has a row key (and, for rbi, a mode)
C4_KeyedLines == (last.op = "add_data" /\ ~Keyed(last.target, last.line)) \/ C4_CountErrorNamed

\* C6: rbi.copy() returns a table with the oxide list and the rows of the
\* source, and afterwards a row added, a value set or an oxide appended in
\* one of the two tables leaves the other as it was.
C6_CopyIndependent ==
    [][/\ last'.op = "copy" => View("cpy")' = View("src")'
       /\ (Exists("cpy") /\ last'.op \in {"add_data", "set", "oxides"}) =>
             \A t \in {"src", "cpy"} \ {last'.target} : View(t)' = View(t)]_vars

\* a value of a row of the copy was set and the source still has its own
C6_Witness ==
    /\ Exists("cpy") /\ last.op = "set" /\ last.target = "cpy"
    /\ Len(View("src").rows) >= 1 /\ Len(View("cpy").rows) >= 1
    /\ View("src").rows[1].key = View("cpy").rows[1].key
    /\ View("src").rows[1].val # View("cpy").rows[1].val
    /\ View("src").header = View("cpy").header

(***************************************************************************)
(* Properties of site_fractions (SpecSite).                                *)
(***************************************************************************)
SiteCalls == Len(sfLast.lines)

Distinct(toks) == \A i, j \in 1..Len(toks) : toks[i] = toks[j] => i = j

\* the pair just completed fills its group: title line T, value line V
PairFills(T, V) ==
    /\ Has(sf.groups, T[1])
    /\ \A i \in 1..Len(V) :
           /\ Has(Get(sf.groups, T[1]), T[i + 1])
           /\ Get(Get(sf.groups, T[1]), T[i + 1]) = Filled(V[i])

\* C5 as claimed: a title line [t, c1..cn] then a value line [v1..vn] give a
\* group t with ci -> vi, and the line fed next opens a group keyed by its
\* first token and never changes the group just completed.
C5_PairThenNewGroup ==
    sfLast.op = "add_data" =>
        /\ (SiteCalls >= 2 /\ SiteCalls % 2 = 0
               /\ Len(sfLast.lines[SiteCalls - 1]) = Len(sfLast.lines[SiteCalls]) + 1) =>
              PairFills(sfLast.lines[SiteCalls - 1], sfLast.lines[SiteCalls])
        /\ (SiteCalls >= 3 /\ SiteCalls % 2 = 1 /\ sfLast.err = NoError) =>
              /\ sf.title = Filled(sfLast.lines[SiteCalls][1])
              /\ Has(sf.groups, sfLast.lines[SiteCalls][1])
              /\ Get(sf.groups, sfLast.lines[SiteCalls - 2][1])
                   = Get(sfLast.prev.groups, sfLast.lines[SiteCalls - 2][1])

\* C5 amended: the same for pairwise distinct column names, and the group
\* just completed is unchanged when the next line names another group; a
\* next line naming the same group replaces it by a new, unfilled one.
C5_PairThenNewGroupAmended ==
    sfLast.op = "add_data" =>
        /\ (SiteCalls >= 2 /\ SiteCalls % 2 = 0
               /\ Len(sfLast.lines[SiteCalls - 1]) = Len(sfLast.lines[SiteCalls]) + 1
               /\ Distinct(Tail(sfLast.lines[SiteCalls - 1]))) =>
              /\ PairFills(sfLast.lines[SiteCalls - 1], sfLast.lines[SiteCalls])
              /\ Keys(Get(sf.groups, sfLast.lines[SiteCalls - 1][1]))
                   = Tail(sfLast.lines[SiteCalls - 1])
        /\ (SiteCalls >= 3 /\ SiteCalls % 2 = 1 /\ sfLast.err = NoError
               /\ Len(sfLast.lines[SiteCalls]) >= 1) =>
              /\ sf.title = Filled(sfLast.lines[SiteCalls][1])
              /\ Has(sf.groups, sfLast.lines[SiteCalls][1])
              /\ IF sfLast.lines[SiteCalls][1] # sfLast.lines[SiteCalls - 2][1]
                 THEN Get(sf.groups, sfLast.lines[SiteCalls - 2][1])
                        = Get(sfLast.prev.groups, sfLast.lines[SiteCalls - 2][1])
                 ELSE \A i \in 1..Len(Get(sf.groups, sfLast.lines[SiteCalls][1])) :
                          Get(sf.groups, sfLast.lines[SiteCalls][1])[i].val = Unset

\* the pair of the example is complete, and a third line has opened group bi
C5_Witness ==
    /\ sfLast.op = "add_data" /\ sfLast.err = NoError
    /\ sfLast.lines = << <<"g", "xMgX", "xFeX">>, <<"0.13698", "0.82757">>,
                         <<"bi", "xMgM3">> >>
    /\ Get(sf.groups, "g") = << [key |-> "xMgX", val |-> Filled("0.13698")],
                                [key |-> "xFeX", val |-> Filled("0.82757")] >>
    /\ Has(sf.groups, "bi")

(***************************************************************************)
(* Properties of Context construction and execute (SpecCtx).               *)
(***************************************************************************)
\* axfile absent or None, or calcmode not 1
BadConfig ==
    \/ ~Has(ctx.script, "axfile")
    \/ Get(ctx.script, "axfile") = PyNone
    \/ ~Has(ctx.prefs, "calcmode")
    \/ Get(ctx.prefs, "calcmode") \notin {PyInt(1), PyStr(Tok("1"))}

\* C8: an execute call on a configuration whose axfile is absent or None or
\* whose calcmode is not 1 raises in validation, having written no file to
\* the scratch directory and launched no program.
C8_ValidationFirst ==
    (ctx.pc = "ready" /\ run.pc # "idle" /\ BadConfig) =>
        /\ run.pc = "raised" /\ run.err # NoError
        /\ run.wrote = {}
        /\ run.launched = 0

\* execute raised on an axfile of None, and on a calcmode of 2
C8_Witness ==
    /\ ctx.pc = "ready" /\ run.pc = "raised" /\ run.wrote = {}
    /\ Has(ctx.script, "axfile") /\ Get(ctx.script, "axfile") = PyNone

\* C9: a Context whose executable cannot be resolved raises and makes no
\* scratch directory; the scratch directory is made only once the
\* executable is resolved and the first reload has returned.
C9_ScratchAfterResolveAndReload ==
    /\ (ctx.pc \notin {"idle", "init"} /\ ctx.exec = PyNone) =>
          (ctx.pc = "raised" /\ ctx.err # NoError /\ ~scratch.created)
    /\ scratch.created => (ctx.exec # PyNone /\ ctx.loaded)
    /\ (ctx.pc = "raised") => ~scratch.created

\* construction raised on the executable, no scratch directory was made
C9_Witness ==
    /\ ctx.pc = "raised" /\ ctx.exec = PyNone /\ ~scratch.exists
    /\ world.dir # PyNone /\ world.dir.hasPrefs

\* a candidate names an executable file (directly or on the search path)
Resolves(p) ==
    IF p.dir # "" THEN p \in world.exes
    ELSE \E i \in 1..Len(SearchPath) : Program(SearchPath[i], p.name) \in world.exes

\* the outcome of resolution when candidate p alone is tried
OnlyTried(p) ==
    IF Resolves(p)
    THEN ctx.exec # PyNone /\ ctx.exec.name = p.name /\ (p.dir # "" => ctx.exec = p)
    ELSE ctx.exec = PyNone /\ ctx.pc = "raised" /\ ctx.err.type = "RuntimeError"

\* C10 as claimed: the tc_executable argument, when given, is the only
\* candidate tried; else the environment variable when present; else thermo
\* on PATH.
C10_TiersNoFallthrough ==
    ctx.pc \notin {"idle", "init"} =>
        IF world.arg # PyNone THEN OnlyTried(world.arg)
        ELSE IF world.env # PyNone THEN OnlyTried(world.env)
        ELSE OnlyTried(Program("", "thermo"))

\* C10 holds of every argument but the empty string: an argument that is
\* None or "" is passed over, any other argument is the only candidate.
C10_NonEmptyArgument ==
    ctx.pc \notin {"idle", "init"} =>
        IF world.arg \notin {PyNone, EmptyString} THEN OnlyTried(world.arg)
        ELSE IF world.env # PyNone THEN OnlyTried(world.env)
        ELSE OnlyTried(Program("", "thermo"))

(***************************************************************************)
(* Properties of the preferences file (SpecPrefs).                         *)
(***************************************************************************)
\* the text of a line before its first '%'
Uncommented(line) ==
    LET marks == {i \in 1..Len(line) : line[i].tok = "%"}
    IN IF marks = {} THEN line
       ELSE SubSeq(line, 1, (CHOOSE i \in marks : \A j \in marks : i <= j) - 1)

\* the keys a file defines: the first token of each line that has a value
KeysDefined(lines) ==
    {Uncommented(lines[i])[1].tok :
        i \in {j \in 1..Len(lines) : Len(Uncommented(lines[j])) >= 2}}

\* C11: reload from a tc-prefs.txt that omits scriptfile, dataset or calcmode
\* raises; the Context is not loaded.
C11_RequiredPrefsKeys ==
    (ctx.pc \notin {"idle", "init", "resolved"}
        /\ ~({"scriptfile", "dataset", "calcmode"} \subseteq KeysDefined(world.dir.prefs))) =>
        (ctx.pc = "raised" /\ ~ctx.loaded /\ ctx.err # NoError)

\* C11 holds of scriptfile and dataset: a file that omits one of them raises
C11_ScriptfileAndDataset ==
    (ctx.pc \notin {"idle", "init", "resolved"}
        /\ ~({"scriptfile", "dataset"} \subseteq KeysDefined(world.dir.prefs))) =>
        (ctx.pc = "raised" /\ ~ctx.loaded /\ ctx.err # NoError)

\* a line that holds a token
Holds(line) == \E i \in 1..Len(line) : line[i].tok # ""

\* a file without its comments and without its blank and comment-only lines
Effective(lines) ==
    SelectSeq([i \in 1..Len(lines) |-> Uncommented(lines[i])], Holds)

\* C13: the text of a line from its first '%' on, and the lines that are blank
\* or comment only, do not affect what reload reads from tc-prefs.txt and
\* from the script file: the outcome is that of the files without them.
C13_CommentsIgnored ==
    ctx.pc \notin {"idle", "init", "resolved"} =>
        LET bare == ReloadAll(ctx.id, [world.dir EXCEPT !.prefs = Effective(@),
                                                       !.script = Effective(@)])
        IN ctx.prefs = bare.prefs /\ ctx.script = bare.script /\ ctx.err = bare.err

\* a Context loaded from files with trailing comments, a commented-out '*'
\* and blank lines: the comments' keys and values are not in the model
C13_Witness ==
    /\ ctx.pc = "ready" /\ ctx.loaded
    /\ Len(world.dir.script) > 1
    /\ \E i \in 1..Len(world.dir.prefs) :
           Holds(world.dir.prefs[i]) /\ ~Holds(Uncommented(world.dir.prefs[i]))
    /\ \E i \in 1..Len(world.dir.prefs) :
           world.dir.prefs[i] # Uncommented(world.dir.prefs[i])
              /\ Len(Uncommented(world.dir.prefs[i])) = 2
    /\ Get(ctx.script, "axfile") = PyStr(Tok("mb50"))
    /\ Get(ctx.script, "with") = PyList(<<PyStr(Tok("g")), PyStr(Tok("bi"))>>)
    /\ Get(ctx.prefs, "dataset") = PyStr(Tok("55"))

(***************************************************************************)
(* Further properties of the script file reader (SpecScript).              *)
(***************************************************************************)
\* the first word of a line, "" for a blank or comment-only line
FirstWord(line) ==
    LET words == SelectSeq(Uncommented(line), LAMBDA c : c.tok # "")
    IN IF words = <<>> THEN "" ELSE words[1].tok

StarLines == {i \in 1..Len(file) : FirstWord(file[i]) = "*"}

\* the file truncated just before its first '*' line
BeforeStar ==
    IF StarLines = {} THEN file
    ELSE SubSeq(file, 1, (CHOOSE i \in StarLines : \A j \in StarLines : i <= j) - 1)

\* C12: the script and the outcome of reload from a file with a '*' line are
\* those of reload from the file truncated just before that line.
C12_StopAtStar ==
    (pc # "new" /\ StarLines # {}) =>
        LET cut == ReloadAll("ident", ScriptsDir(BeforeStar))
        IN script = cut.script /\ err = cut.err

\* a file with directives after its '*' line was loaded without them
C12_Witness ==
    /\ pc = "loaded" /\ err = NoError
    /\ Len(file) = 4 /\ FirstWord(file[2]) = "*"
    /\ FirstWord(file[3]) = "with" /\ FirstWord(file[4]) = "rbi"
    /\ Keys(script) = <<"axfile", "autoexit">>

\* the lines read: the words of the lines of the file before '*'
WordsRead ==
    LET lines == Effective(BeforeStar)
    IN [i \in 1..Len(lines) |-> [j \in 1..Len(lines[i]) |-> lines[i][j].tok]]

AskLines ==
    {i \in 1..Len(WordsRead) :
        WordsRead[i][1] \notin {"xyzguess", "rbi"} /\ Tail(WordsRead[i]) = <<"ask">>}

\* the value 'ask', as a scalar or as an item of a list
HoldsAsk(v) ==
    \/ v = PyStr(Tok("ask"))
    \/ v.t = "list" /\ \E i \in 1..Len(v.items) : v.items[i] = PyStr(Tok("ask"))

\* C14: reload of a script file with a directive, other than xyzguess and
\* rbi, whose argument is 'ask' raises, whichever occurrence of its key it
\* is; 'ask' is never stored as a scalar or as an item of a list.
C14_AskRejected ==
    pc # "new" =>
        /\ AskLines # {} => (status = "raised" /\ err # NoError)
        /\ \A i \in 1..Len(script) : ~HoldsAsk(script[i].val)

\* reload raised on 'ask' at the third occurrence of the key
C14_Witness ==
    /\ pc = "loaded" /\ status = "raised" /\ err = RuntimeError("ask")
    /\ AskLines = {4}
    /\ Has(script, "with")
    /\ Get(script, "with") = PyList(<<PyStr(Tok("g")), PyNone>>)

\* the keys in the order of their first insertion
RECURSIVE FirstInsertions(_)
FirstInsertions(keys) ==
    IF keys = <<>> THEN <<>>
    ELSE LET front == FirstInsertions(SubSeq(keys, 1, Len(keys) - 1))
             k == keys[Len(keys)]
         IN IF k \in Range(front) THEN front ELSE Append(front, k)

\* C15: the keys of the script are in the order of their first insertion,
\* the defaults axfile and autoexit first and then the keys of the file by
\* first occurrence, whatever later occurrences promote, append or overwrite;
\* the lines save_script writes follow that order.
C15_FirstInsertionOrder ==
    /\ ReadThrough =>
          Keys(script) = FirstInsertions(<<"axfile", "autoexit">>
                             \o [i \in 1..Len(WordsRead) |-> WordsRead[i][1]])
    /\ (pc \in {"saved", "reread"} /\ status = "loaded") =>
          FirstInsertions([i \in 1..Len(written) |-> FirstWord(written[i])]) = Keys(script)

\* a key promoted to a list after another key was inserted, then saved
C15_Witness ==
    /\ pc = "saved" /\ status = "loaded"
    /\ Keys(script) = <<"axfile", "autoexit", "with", "rbi">>
    /\ Get(script, "axfile") = PyStr(Tok("mb50"))
    /\ Get(script, "with").t = "list"
    /\ [i \in 1..Len(WordsRead) |-> WordsRead[i][1]] = <<"axfile", "with", "rbi", "with">>

(***************************************************************************)
(* Properties of execute (SpecCtx, SpecParse).                             *)
(***************************************************************************)
StepOrder ==
    <<"check", "save_prefs", "save_script", "copy_dataset", "copy_axfile", "launch",
      "communicate", "parse_log", "parse_ic", "return">>

\* the four input files of the program
InputFiles ==
    {PrefsName, TcName(Format(Get(ctx.prefs, "scriptfile"))),
     DsName(Format(Get(ctx.prefs, "dataset"))), TcName(Format(Get(ctx.script, "axfile")))}

\* a scanner has opened an artifact in this call
ArtifactRead ==
    \/ "parse_log" \in Range(run.done)
    \/ run.pc = "raised" /\ run.at \in {"parse_log", "parse_ic"}

\* C16: the steps of an execute call are taken in the order validate, write
\* prefs, write script, copy dataset, copy axfile, launch (and wait), scan
\* the log, scan the ic file, return, none skipped; the program is launched
\* only with the four input files written in the scratch directory, and no
\* artifact is read before the program has exited.
C16_StepOrder ==
    /\ Len(run.done) <= Len(StepOrder)
    /\ run.done = SubSeq(StepOrder, 1, Len(run.done))
    /\ run.pc = "returned" => run.done = StepOrder
    /\ run.launched > 0 =>
          /\ run.launched = 1
          /\ InputFiles \subseteq run.wrote
          /\ \A f \in InputFiles : Has(scratch.files, f)
    /\ ArtifactRead => run.proc = "exited"

\* a second execute call has returned after all its steps
C16_Witness ==
    /\ run.pc = "returned" /\ run.n = 2 /\ run.done = StepOrder
    /\ run.launched = 1 /\ run.proc = "exited"
    /\ Has(run.res, "output_tc_log") /\ Has(run.res, "output_tc_ic")

\* the call is over and the program had been run
Finished == run.pc \in {"returned", "raised"} /\ run.proc = "exited"

LogWritten == Has(scratch.files, LogName)

IcWritten == Has(scratch.files, IcName(Get(ctx.prefs, "scriptfile").s))

LogText == Get(scratch.files, LogName)

IcText == Get(scratch.files, IcName(Get(ctx.prefs, "scriptfile").s))

\* every entry of d is in the results
Kept(d) == \A i \in 1..Len(d) : Has(run.res, d[i].key) /\ Get(run.res, d[i].key) = d[i].val

Streams ==
    /\ Has(run.res, "output_stdout") /\ Get(run.res, "output_stdout") = PyText(<<Tok("done")>>)
    /\ Has(run.res, "output_stderr") /\ Get(run.res, "output_stderr") = PyText(<<>>)

\* C17: when the scan of tc-log.txt fails, execute still returns, and the
\* results hold the output streams and every field read from the ic file.
C17_LogFailureNonFatal ==
    (Finished /\ LogWritten /\ IcWritten /\ ParseLog(<<>>, LogText).err # NoError) =>
        /\ run.pc = "returned"
        /\ Streams
        /\ Kept(ParseIc(<<>>, IcText).res)

\* C18: when the scan of an existing ic file fails, execute still returns,
\* and the results keep every field read from the log, the output streams
\* and the raw text of the log.
C18_IcFailureNonFatal ==
    (IcWritten /\ LogWritten /\ ParseIc(<<>>, IcText).err # NoError
        /\ ("parse_ic" \in Range(run.done) \/ (run.pc = "raised" /\ run.at = "parse_ic"))) =>
        /\ run.pc \in {"return", "returned"}
        /\ Streams
        /\ Kept(ParseLog(<<>>, LogText).res)
        /\ Has(run.res, "output_tc_log") /\ Get(run.res, "output_tc_log") = PyText(LogText)

\* execute returned after the thermodynamic property rows failed to scan
C18_Witness ==
    /\ run.pc = "returned" /\ "ic" \in run.warned
    /\ Has(run.res, "rbi") /\ Has(run.res, "P")
    /\ Has(run.res, "bulk_composition") /\ ~Has(run.res, "thermodynamic_properties")
    /\ Has(run.res, "output_tc_ic")

\* every column of every group holds a value
SiteFilled(obj) ==
    \A i \in 1..Len(obj.groups) : \A j \in 1..Len(obj.groups[i].val) :
        obj.groups[i].val[j].val # Unset

\* every row has `extra` + one value per header item
RowsFull(tbl, extra) ==
    \A i \in 1..Len(tbl.rows) : Len(tbl.rows[i].val) = Len(tbl.header) + extra

\* C19: in the results execute returns, no site-fraction group has a column
\* that still holds None and no table row has fewer values than its header.
C19_FieldsFullyPopulated ==
    run.pc = "returned" =>
        /\ Has(run.res, "site_fractions") => SiteFilled(Get(run.res, "site_fractions").sf)
        /\ Has(run.res, "rbi") => RowsFull(Get(run.res, "rbi").tbl, 1)
        /\ Has(run.res, "thermodynamic_properties") =>
              RowsFull(Get(run.res, "thermodynamic_properties").tbl, 0)

\* C19 holds of the tables: their rows are full in every result returned
C19_TablesFull ==
    run.pc = "returned" =>
        /\ Has(run.res, "rbi") => RowsFull(Get(run.res, "rbi").tbl, 1)
        /\ Has(run.res, "thermodynamic_properties") =>
              RowsFull(Get(run.res, "thermodynamic_properties").tbl, 0)

LogFields == {"rbi", "phases", "P", "T", "xyz", "modes"}

IcFields == {"site_fractions", "bulk_composition", "thermodynamic_properties"}

\* C20: execute returns whatever the program left behind; the raw text of
\* an artifact that exists is in the results, whether or not its scan
\* succeeded, and an artifact that does not exist leaves neither raw text nor
\* fields.
C20_RawCaptureIndependent ==
    Finished =>
        /\ run.pc = "returned"
        /\ IF LogWritten
           THEN Has(run.res, "output_tc_log") /\ Get(run.res, "output_tc_log") = PyText(LogText)
           ELSE ~Has(run.res, "output_tc_log") /\ \A k \in LogFields : ~Has(run.res, k)
        /\ IF IcWritten
           THEN Has(run.res, "output_tc_ic") /\ Get(run.res, "output_tc_ic") = PyText(IcText)
           ELSE ~Has(run.res, "output_tc_ic") /\ \A k \in IcFields : ~Has(run.res, k)

\* C20 holds of the calls that return: both artifacts exist and their raw
\* text is in the results, also when the scan of the ic file failed
C20_WhenReturned ==
    run.pc = "returned" =>
        /\ LogWritten /\ Get(run.res, "output_tc_log") = PyText(LogText)
        /\ IcWritten /\ Get(run.res, "output_tc_ic") = PyText(IcText)

(***************************************************************************)
(* Properties of the log scanner (SpecParse).                              *)
(***************************************************************************)
\* the log scan has stored what it read in this call, and the call goes on
LogScanned == "parse_log" \in Range(run.done) /\ run.pc # "raised"

\* C26: the pressure and the temperature of a ptguess line are stored in
\* the results as floating-point numbers.
C26_PtguessNumeric ==
    LogScanned =>
        /\ Has(run.res, "P") => Get(run.res, "P").t = "float"
        /\ Has(run.res, "T") => Get(run.res, "T").t = "float"

\* C26, as the code has it: P and T are the two text tokens of the line
C26_PtguessText ==
    (LogScanned /\ Has(run.res, "P")) =>
        /\ Get(run.res, "P") = PyStr(Tok("5"))
        /\ Has(run.res, "T") /\ Get(run.res, "T") = PyStr(Tok("600"))

\* the first token of a line ("" for a line without tokens)
LogKey(line) == IF Split(line) = <<>> THEN "" ELSE Split(line)[1]

\* the lines from i on that follow a mode line as its values
RECURSIVE ModeValueLines(_, _)
ModeValueLines(lines, i) ==
    IF i > Len(lines) THEN {}
    ELSE IF LogKey(lines[i]) = "mode"
         THEN ({i + 1} \cap (1..Len(lines))) \cup ModeValueLines(lines, i + 2)
    ELSE ModeValueLines(lines, i + 1)

\* the mode lines that open a record, and the lines of no mode record
ModeLines(lines) ==
    {i \in 1..Len(lines) : LogKey(lines[i]) = "mode" /\ i \notin ModeValueLines(lines, 1)}

RECURSIVE WithoutModes(_, _)
WithoutModes(lines, i) ==
    IF i > Len(lines) THEN <<>>
    ELSE IF i \in ModeLines(lines) \cup ModeValueLines(lines, 1)
         THEN WithoutModes(lines, i + 1)
    ELSE <<lines[i]>> \o WithoutModes(lines, i + 1)

\* the names of a mode line paired with the values of the line after it
ModesOf(lines, i) ==
    ZipFloats(<<>>, Tail(Split(lines[i])),
              IF i < Len(lines) THEN Split(lines[i + 1]) ELSE <<>>).d

\* the entries of the results that come from directives other than mode
NotModes(d) ==
    SelectSeq(d, LAMBDA e : e.key \in {"rbi", "phases", "P", "T", "xyz"})

DirectiveKeys == {"rbi", "xyzguess", "ptguess", "phases:", "mode"}

\* C27: the line after a mode line supplies the values of that record,
\* paired by position with the names up to the shorter of the two, and is
\* not dispatched as a directive whatever its first token; scanning resumes
\* with the line after it.
C27_ModeConsumesNextLine ==
    (LogScanned /\ LogWritten) =>
        /\ NotModes(run.res) = NotModes(ParseLog(<<>>, WithoutModes(LogText, 1)).res)
        /\ Has(run.res, "modes") <=> ModeLines(LogText) # {}
        /\ \A i \in ModeLines(LogText) :
              (\A j \in ModeLines(LogText) : j <= i) =>
                  Get(run.res, "modes") = PyDict(ModesOf(LogText, i))

\* a log was scanned whose mode record took a line that begins with the
\* name of a directive
C27_Witness ==
    /\ run.pc = "returned" /\ LogWritten /\ Has(run.res, "modes")
    /\ \E i \in ModeValueLines(LogText, 1) : LogKey(LogText[i]) \in DirectiveKeys

(***************************************************************************)
(* Properties of the ic scanner (SpecParse).                               *)
(***************************************************************************)
\* the ic scan succeeded in this call and the call goes on
IcScanned ==
    /\ "parse_ic" \in Range(run.done) /\ run.pc # "raised"
    /\ IcWritten /\ "ic" \notin run.warned

\* the lines that read "oxide compositions"
OxideTitles(lines) ==
    {i \in 1..Len(lines) : StripText(lines[i]) = Join(<<"oxide", "compositions">>)}

\* the first empty line from i on (one past the end when there is none)
BlockEnd(lines, i) ==
    LET ends == {j \in i..Len(lines) : lines[j] = <<>>}
    IN IF ends = {} THEN Len(lines) + 1 ELSE CHOOSE j \in ends : \A k \in ends : j <= k

\* the data rows of the section whose title is line o, and those keyed bulk
OxideRows(lines, o) == (o + 2)..(BlockEnd(lines, o + 2) - 1)

BulkRows(lines, o) == {i \in OxideRows(lines, o) : LogKey(lines[i]) = "bulk"}

\* the header line of the block that follows the section (0 when none)
ThermoHeaderLine(lines, o) ==
    LET t == BlockEnd(lines, o + 2) + 1
    IN IF t <= Len(lines) /\ lines[t] # <<>> THEN t ELSE 0

ThermoRows(lines, t) == (t + 1)..(BlockEnd(lines, t + 1) - 1)

\* bulk_composition pairs the p-th header name with the p-th value of the
\* last bulk row that has one
BulkPaired(d, lines, o) ==
    LET keys == Split(lines[o + 1])
    IN /\ \A i \in 1..Len(d) : \E p \in 1..Len(keys) : d[i].key = keys[p]
       /\ \A p \in 1..Len(keys) :
             LET rows == {b \in BulkRows(lines, o) : Len(Split(lines[b])) > p}
                 b == CHOOSE r \in rows : \A q \in rows : q <= r
             IN IF rows = {} THEN ~Has(d, keys[p])
                ELSE Has(d, keys[p]) /\ Get(d, keys[p]) = FloatOf(Split(lines[b])[p + 1]).v

\* the table holds the rows of the block whose header is line t, no others
ThermoOfBlock(tbl, lines, t) ==
    /\ tbl.header = Split(lines[t])
    /\ Len(tbl.rows) = Cardinality(ThermoRows(lines, t))
    /\ \A i \in ThermoRows(lines, t) :
          /\ tbl.rows[i - t].key = Split(lines[i])[1]
          /\ \A p \in 1..Len(tbl.header) :
                Get(tbl.rows[i - t].val, tbl.header[p]) = Split(lines[i])[p + 1]

\* C28: of the rows of "oxide compositions" up to the first empty line only
\* those keyed bulk reach bulk_composition, header names paired by position
\* with the row's values; the first block after the section, and no later
\* one, is the thermodynamic_properties table.
C28_BulkRowAndFirstBlock ==
    (IcScanned /\ Cardinality(OxideTitles(IcText)) = 1) =>
        LET o == CHOOSE i \in OxideTitles(IcText) : TRUE
            t == ThermoHeaderLine(IcText, o)
        IN /\ Has(run.res, "bulk_composition")
           /\ BulkPaired(Get(run.res, "bulk_composition").d, IcText, o)
           /\ IF t = 0 THEN ~Has(run.res, "thermodynamic_properties")
              ELSE /\ Has(run.res, "thermodynamic_properties")
                   /\ ThermoOfBlock(Get(run.res, "thermodynamic_properties").tbl, IcText, t)

\* an ic file was scanned whose section has a row keyed g and a row keyed
\* bulk, followed by two blocks
C28_Witness ==
    /\ run.pc = "returned" /\ IcScanned /\ Cardinality(OxideTitles(IcText)) = 1
    /\ LET o == CHOOSE i \in OxideTitles(IcText) : TRUE
           t == ThermoHeaderLine(IcText, o)
       IN /\ BulkRows(IcText, o) # {} /\ BulkRows(IcText, o) # OxideRows(IcText, o)
          /\ t # 0
          /\ \E j \in (BlockEnd(IcText, t + 1) + 1)..Len(IcText) : IcText[j] = IcText[t]
          /\ Len(Get(run.res, "thermodynamic_properties").tbl.rows) = 1
          /\ Len(Get(run.res, "bulk_composition").d) = 2

(***************************************************************************)
(* Further properties of site_fractions (SpecSite).                        *)
(***************************************************************************)
\* the last call was given a value line: a group was open when it was made
ValueCall == sfLast.op = "add_data" /\ ~sfLast.prev.title.none

\* a value line never raises; it fills the open group by position, leaves
\* the columns beyond its length at None, drops the tokens beyond the
\* columns, and leaves the column names as they were
ValueLineZips ==
    ValueCall =>
        /\ sfLast.err = NoError
        /\ LET g == sfLast.prev.title.tok
               line == sfLast.lines[SiteCalls]
               before == Get(sfLast.prev.groups, g)
               after == Get(sf.groups, g)
           IN /\ Keys(after) = Keys(before)
              /\ \A p \in 1..Len(after) :
                    after[p].val = IF p <= Len(line) THEN Filled(line[p]) ELSE Unset

\* C29: from a new object the pending group name is set after every odd
\* number of add_data calls and cleared after every even number; a value
\* line never raises on a length mismatch, a short one leaves the trailing
\* columns at None, a long one's extra tokens are dropped, and it never
\* changes the column names of the group.
C29_PendingAlternates ==
    sfLast.op = "add_data" =>
        /\ sf.title.none <=> (sfLast.n % 2 = 0)
        /\ ValueLineZips

\* C29 holds of the calls that returned: the pending name is set after an
\* odd number of them and cleared after an even number, and a value line
\* behaves as claimed
C29_ReturnedCallsAlternate ==
    /\ sf.title.none <=> (SiteCalls % 2 = 0)
    /\ ValueLineZips

(***************************************************************************)
(* Properties of repeated execute calls (SpecCtx).                         *)
(***************************************************************************)
\* the call has got past the scanners named, and goes on
Scanned(step) == step \in Range(run.done) /\ run.pc # "raised"

\* C24: the fields and the raw text in the results of an execute call come
\* only from artifacts the program wrote during that call, also when the
\* program wrote no such file.
C24_FreshArtifacts ==
    /\ (Scanned("parse_log")
          /\ (Has(run.res, "output_tc_log") \/ \E k \in LogFields : Has(run.res, k))) =>
              LogName \in run.art
    /\ (Scanned("parse_ic")
          /\ (Has(run.res, "output_tc_ic") \/ \E k \in IcFields : Has(run.res, k))) =>
              IcName(Get(ctx.prefs, "scriptfile").s) \in run.art

\* C24 holds of the artifacts the program writes: what a call returns of an
\* artifact written in that call is the text written in that call
C24_WrittenArtifactsRead ==
    run.pc = "returned" =>
        /\ LogName \in run.art => Get(run.res, "output_tc_log") = PyText(LogText)
        /\ IcName(Get(ctx.prefs, "scriptfile").s) \in run.art =>
              Get(run.res, "output_tc_ic") = PyText(IcText)

\* a step of an execute call: its entry, or a step from a position in it
ExecStep == run'.n > run.n \/ (run' # run /\ run.pc \notin {"idle", "returned", "raised"})

PrefsKeysOf(d) ==
    IF d = PyNone \/ ~d.hasPrefs THEN {}
    ELSE {Split(StripComment(d.prefs[i]))[1] :
             i \in {j \in 1..Len(d.prefs) : Len(Split(StripComment(d.prefs[j]))) > 1}}

DirectivesIn(d) == IF d = PyNone \/ ~d.hasPrefs THEN <<>> ELSE Directives(d.script)

\* the directives of key k, and the values they give
Of(dirs, k) == SelectSeq(dirs, LAMBDA x : x[1] = k)

ValuesIn(dirs, k) ==
    {IF Len(x) = 1 THEN PyNone ELSE PyStr(Join(Tail(x))) : x \in Range(Of(dirs, k))}

\* an entry of the script is a default or was parsed from the directives;
\* a key of a file read to its end is a scalar when it occurs once
EntryFrom(e, dirs, whole) ==
    \/ e \in Range(DefaultScript)
    \/ /\ e.key \notin {"rbi", "xyzguess"}
       /\ e.val \in ValuesIn(dirs, e.key)
       /\ whole => Len(Of(dirs, e.key)) = 1
    \/ /\ e.key \notin {"rbi", "xyzguess"}
       /\ e.val.t = "list" /\ Len(Of(dirs, e.key)) >= 2
       /\ Len(e.val.items) <= Len(Of(dirs, e.key))
       /\ Range(e.val.items) \subseteq ValuesIn(dirs, e.key)
    \/ /\ e.key = "rbi" /\ e.val.t = "rbi" /\ Of(dirs, "rbi") # <<>>
       /\ e.val.tbl.header = Tail(Of(dirs, "rbi")[1])
       /\ Len(e.val.tbl.rows) < Len(Of(dirs, "rbi"))
       /\ \A i \in 1..Len(e.val.tbl.rows) :
             \E j \in 2..Len(Of(dirs, "rbi")) : e.val.tbl.rows[i].key = Of(dirs, "rbi")[j][2]
    \/ /\ e.key = "xyzguess" /\ e.val.t = "xyz"
       /\ \A i \in 1..Len(e.val.d) :
             \E x \in Range(Of(dirs, "xyzguess")) :
                 Len(x) >= 2 /\ e.val.d[i].key = x[2] /\ e.val.d[i].val = SubSeq(x, 3, Len(x))

\* the preferences and the script hold the defaults and entries of d only
OnlyFromSources(c, d) ==
    /\ \A i \in 1..Len(c.prefs) :
          \/ c.prefs[i] \in Range(DefaultPrefs(c.id))
          \/ c.prefs[i].key \in PrefsKeysOf(d) /\ c.prefs[i].val.t = "str"
    /\ \A k \in Range(Keys(DefaultPrefs(c.id))) : Has(c.prefs, k)
    /\ \A i \in 1..Len(c.script) : EntryFrom(c.script[i], DirectivesIn(d), c.err = NoError)
    /\ Has(c.script, "autoexit")

\* C25: after a reload call, returned or raised, the preferences and the
\* script hold only the defaults and entries parsed from the files in that
\* call: nothing of the previous load or of the caller's changes since is
\* left, and a key read once is a scalar again.
C25_ReloadReplaces ==
    (ctx.pc = "ready" /\ ctx.since = 0) => OnlyFromSources(ctx, world.dir)

\* reload has run after the caller's changes, and returned
C25_Witness ==
    /\ ctx.pc = "ready" /\ ctx.since = 0 /\ ctx.edits >= 2 /\ ctx.err = NoError
    /\ Has(ctx.script, "with") /\ Get(ctx.script, "with") = PyStr(Tok("g"))

(***************************************************************************)
(* Properties of two Contexts and their scratch directories (SpecPair).    *)
(***************************************************************************)
Alive == {c \in CtxNames : ctxs[c].alive}

\* C21: no scratch directory is shared between two Context instances: any
\* two contexts alive at the same time have different scratch directory
\* paths, however they were constructed.
C21_NoSharedScratch ==
    \A a \in Alive, b \in Alive : a # b => ctxs[a].temp_dir # ctxs[b].temp_dir

\* C21, the consequence: the program a context starts reads the tc-prefs.txt
\* that this context wrote, and no directory holds files of two contexts.
C21_OwnFilesOnly ==
    /\ \A c \in Alive : ctxs[c].ran # <<>> => ctxs[c].ran[1].by = c
    /\ \A d \in AllDirs : \A i, j \in 1..Len(tmp[d].files) :
           tmp[d].files[i].val.by = tmp[d].files[j].val.by

\* C21, what the code does give: two contexts built without temp_dir whose
\* random identifiers differ use different directories.
C21_DefaultsDifferWithIds ==
    \A a \in Alive, b \in Alive :
        (a # b /\ ctxs[a].arg \in {PyNone, PyStr(<<>>)} /\ ctxs[b].arg \in {PyNone, PyStr(<<>>)}
              /\ ctxs[a].id # ctxs[b].id)
            => ctxs[a].temp_dir # ctxs[b].temp_dir

(***************************************************************************)
(* Properties of the program's pipes (SpecProc, SpecProcLive).             *)
(***************************************************************************)
\* the program waits for a stdin line nobody has sent
ProgWaits ==
    /\ prog.pc = "running"
    /\ prog.todo # <<>>
    /\ Head(prog.todo) = "readline"
    /\ pipes.stdin = <<>>
    /\ ~pipes.stdinClosed

\* execute waits in the print loop for a stdout line or end of file
WrapWaits ==
    /\ wrap.pc = "print_loop"
    /\ pipes.stdout = <<>>
    /\ ~pipes.stdoutClosed

\* C22: for either setting of print_output, the line n is written to stdin
\* and stdin closed without first waiting for the program's stdout to close,
\* so a program that reads a stdin line before it finishes terminates and
\* execute eventually returns.
C22_ExecuteReturns == <>(wrap.pc = "results")

\* C22, the first half as a state property: execute never waits for the
\* program's output before it has sent the line.
C22_SentBeforeWaiting == WrapWaits => wrap.sent

\* C22: execute and the program never wait for each other.
C22_NoDeadlock == ~(WrapWaits /\ ProgWaits)

\* C22, what the code does give: without print_output execute returns.
C22_ReturnsWithoutPrint == (~wrap.print_output) => <>(wrap.pc = "results")

\* C22, what the code does give: a program that never reads stdin lets
\* execute return for either setting.
C22_ReturnsWithoutRead ==
    (\A i \in 1..Len(prog.todo) : prog.todo[i] # "readline") => <>(wrap.pc = "results")

\* C23: output_stdout holds the program's complete standard output, for
\* either setting of print_output: no line the program wrote is missing.
C23_StdoutComplete == wrap.pc = "results" => wrap.output_stdout = prog.wrote

\* C23, what the code does give: without print_output the capture is complete.
C23_CompleteWithoutPrint ==
    (wrap.pc = "results" /\ ~wrap.print_output) => wrap.output_stdout = prog.wrote

\* C23, what the code does give: with print_output every line was printed
\* and none is captured.
C23_PrintedNotCaptured ==
    (wrap.pc = "results" /\ wrap.print_output)
        => wrap.printed = prog.wrote /\ wrap.output_stdout = <<>>

====
